---- MODULE Spec2Model ----
(***************************************************************************)
(* Smart Water Controller: the irrigation engine                           *)
(* (custom_components/smart_water_controller/coordinator.py, api.py) as a  *)
(* state machine.  Every coroutine is cut at the awaits where the event    *)
(* loop can run another task (service calls, storage writes, sleeps);      *)
(* the code between two such awaits is one atomic step.                    *)
(*                                                                         *)
(* Units.  Time is counted in units of 1/Second of a second, so that a     *)
(* process can come up between two whole seconds.  Water depth (mm) is     *)
(* counted in hundredths of a millimetre, volumes in 1/60 litre, so that   *)
(* one loop iteration adds whole numbers.  The code computes in binary     *)
(* floating point; the model computes the same expressions exactly.        *)
(***************************************************************************)
EXTENDS Integers, Sequences, FiniteSets, TLC

\* ------------------------------------------------------------------------
\* Bounds of the model
\* ------------------------------------------------------------------------
Second == 2           \* time units per second
MaxDuration == 1      \* longest session asked for, in minutes
MaxStarts == 2        \* manual start_irrigation calls per behaviour
MaxStopCalls == 1     \* manual stop_irrigation calls per behaviour
MaxRestarts == 1      \* process restarts per behaviour
MaxPolls == 1         \* periodic polls per behaviour
SessionBudget == 3    \* environment actions per behaviour of a session run
DailyBudget == 1      \* environment actions per behaviour of a daily run
SessionHorizon == 1   \* minutes a session run lasts
DailyHorizon == 7     \* minutes a daily run lasts
TailSeconds == 3      \* seconds the clock runs on after the last minute of a run
DaysPerMonth == 30    \* calendar: every month has this many days
StartDay == 100       \* the day on which a behaviour starts
SoilThreshold == 40   \* soil_moisture_threshold of the configurations with a sensor, %

\* ------------------------------------------------------------------------
\* Program constants
\* ------------------------------------------------------------------------
NumStations == 2             \* num_stations default
SecondsPerMinute == 60       \* duration * 60
DefaultFlowRate == 12        \* water_flow_rate default, L/min
SecondsPerDay == 86400
ResetAfterSeconds == 300     \* "00:05:00"
MmScale == 100               \* hundredths of a millimetre (round(mm, 2))

Stations == 1..NumStations
\* the numbers a soil moisture sensor reports: below, at and above the threshold
SoilValues == {SoilThreshold - 1, SoilThreshold, SoilThreshold + 1}
Minute == SecondsPerMinute * Second
Day == SecondsPerDay * Second

Min(a, b) == IF a <= b THEN a ELSE b
Max(a, b) == IF a >= b THEN a ELSE b
SetMin(S) == CHOOSE x \in S : \A y \in S : x <= y

\* datetime.date() and datetime.time() of a local timestamp
DateOf(t) == t \div Day
TimeOf(t) == t % Day
\* date.month - 1
MonthIndex(d) == (d \div DaysPerMonth) % 12
\* strftime("%Y-%m-%d %H:%M:%S") followed by strptime: the fraction of a second is lost
FormatTimestamp(t) == (t \div Second) * Second

\* a rounding that drops the digits after the second decimal
RoundDown(num, den) == num \div den

\* round(x, 2) of the exact quotient num/den, in hundredths, ties to even
RoundHalfEven(num, den) ==
    LET q == num \div den
        r == num % den
    IN  IF 2 * r < den THEN q
        ELSE IF 2 * r > den THEN q + 1
        ELSE IF q % 2 = 0 THEN q ELSE q + 1

\* ------------------------------------------------------------------------
\* Data
\* ------------------------------------------------------------------------
NoSession == [station |-> 0, start_at |-> 0, end_at |-> 0, duration_minutes |-> 0]

\* area = self.station_areas[station - 1] or 1
AreaOf(cfg, s) == IF cfg.station_areas[s] = 0 THEN 1 ELSE cfg.station_areas[s]

\* mm_per_minute / 60 added to sprinkle_total_amount_today per loop iteration
MmPerTick(c, cfg, s) == (c.water_flow_rate[s] * MmScale) \div (AreaOf(cfg, s) * SecondsPerMinute)

\* water_flow_rate / 60 added to total_water_consumption per loop iteration (1/60 L)
LitresPerTick(c, s) == c.water_flow_rate[s]

_is_switch_control_method(cfg) == cfg.irrigation_control_method = "switch"

\* api._get_station_switch_entity: the station has a switch entity
HasSwitch(cfg, s) == s >= 1 /\ s <= cfg.num_switches

\* ------------------------------------------------------------------------
\* The engine's data: `c` is the coordinator object (its attributes), `w` a
\* world [c, store, sw, off, rs]: the coordinator, the persisted snapshot
\* (Store), the switch outputs of the host, the set of stations whose
\* output has been sent an off command in the step being taken, and the
\* record kept of the calls of the daily reset.
\* ------------------------------------------------------------------------
ZeroPerStation == [s \in Stations |-> 0]
\* stop_irrigation: state = "Stopped" for every station
AllStopped == [s \in Stations |-> "Stopped"]
\* the state a station object is created with (models.IrrigationStation)
DefaultStations == [s \in Stations |-> "Stopped"]

\* initialize_schedule: the schedule created when none is stored
NewSchedule ==
    [m \in 1..12 |-> [interval_days |-> 0,
                      stations |-> [s \in Stations |-> 0],
                      hours |-> <<>>]]

\* SmartWaterControllerCoordinator.__init__ at time t.  The station objects
\* (models.IrrigationStation) start Stopped.
Constructor(t) ==
    [stations |-> DefaultStations,
     active_irrigation |-> NoSession,
     irrigation_stop_event |-> FALSE,
     schedule |-> <<>>,
     last_reset |-> t, last_rain |-> t, last_sprinkle |-> t,
     will_it_rain_today |-> FALSE, has_rained_today |-> FALSE, is_raining_now |-> FALSE,
     rain_time_today |-> 0, rain_total_amount_today |-> 0,
     rain_total_amount_forecasted_today |-> 0,
     total_water_consumption |-> 0,
     water_flow_rate |-> [s \in Stations |-> DefaultFlowRate],
     sprinkle_total_amount_today |-> ZeroPerStation,
     sprinkle_target_amount_today |-> ZeroPerStation,
     forecasted_sprinkle_today |-> ZeroPerStation]

\* the storage_data dict of save_persistent_data
Snapshot(c) ==
    [has_data |-> TRUE,
     will_it_rain_today |-> c.will_it_rain_today,
     has_rained_today |-> c.has_rained_today,
     is_raining_now |-> c.is_raining_now,
     last_reset |-> FormatTimestamp(c.last_reset),
     last_sprinkle |-> FormatTimestamp(c.last_sprinkle),
     last_rain |-> FormatTimestamp(c.last_rain),
     water_flow_rate |-> c.water_flow_rate,
     rain_time_today |-> c.rain_time_today,
     rain_total_amount_today |-> c.rain_total_amount_today,
     rain_total_amount_forecasted_today |-> c.rain_total_amount_forecasted_today,
     total_water_consumption |-> c.total_water_consumption,
     sprinkle_total_amount_today |-> c.sprinkle_total_amount_today,
     sprinkle_target_amount_today |-> c.sprinkle_target_amount_today,
     forecasted_sprinkle_today |-> c.forecasted_sprinkle_today,
     schedule |-> c.schedule,
     active_irrigation |-> c.active_irrigation]

\* an empty Store: async_load returns None
NoData == [Snapshot(Constructor(0)) EXCEPT !.has_data = FALSE]

save_persistent_data(w) == [w EXCEPT !.store = Snapshot(w.c)]

\* load_persistent_data at time t: the attributes the snapshot carries replace
\* the constructor's; with no snapshot the defaults are set again
load_persistent_data(c, store, t) ==
    IF store.has_data
    THEN [c EXCEPT
            !.will_it_rain_today = store.will_it_rain_today,
            !.has_rained_today = store.has_rained_today,
            !.is_raining_now = store.is_raining_now,
            !.rain_time_today = store.rain_time_today,
            !.rain_total_amount_today = store.rain_total_amount_today,
            !.rain_total_amount_forecasted_today = store.rain_total_amount_forecasted_today,
            !.total_water_consumption = store.total_water_consumption,
            !.sprinkle_total_amount_today = store.sprinkle_total_amount_today,
            !.sprinkle_target_amount_today = store.sprinkle_target_amount_today,
            !.forecasted_sprinkle_today = store.forecasted_sprinkle_today,
            !.schedule = store.schedule,
            !.active_irrigation = store.active_irrigation,
            !.water_flow_rate = store.water_flow_rate,
            !.last_reset = store.last_reset,
            !.last_rain = store.last_rain,
            !.last_sprinkle = store.last_sprinkle]
    ELSE [c EXCEPT
            !.will_it_rain_today = FALSE, !.has_rained_today = FALSE,
            !.is_raining_now = FALSE,
            !.last_reset = t, !.last_sprinkle = t, !.last_rain = t,
            !.rain_time_today = 0, !.rain_total_amount_today = 0,
            !.rain_total_amount_forecasted_today = 0,
            !.total_water_consumption = 0,
            !.water_flow_rate = [s \in Stations |-> DefaultFlowRate],
            !.sprinkle_total_amount_today = ZeroPerStation,
            !.sprinkle_target_amount_today = ZeroPerStation,
            !.forecasted_sprinkle_today = ZeroPerStation,
            !.schedule = <<>>]

\* ------------------------------------------------------------------------
\* Daily budget
\* ------------------------------------------------------------------------
\* [h for h in month_config.get("hours", []) if h]: the non-empty hour strings.
\* An hour string is the sequence of its numeric fields: <<6, 0>> is "06:00",
\* <<6, 0, 30>> is "06:00:30", <<6>> is "6" and <<>> is "".
NonEmptyHours(hours) == SelectSeq(hours, LAMBDA h : h # <<>>)

\* util.parse_time_string: "HH:MM:SS", "HH:MM" or a bare hour "H"; anything else
\* raises ValueError
ValidHour(h) ==
    /\ Len(h) \in 1..3
    /\ h[1] \in 0..23
    /\ Len(h) >= 2 => h[2] \in 0..59
    /\ Len(h) = 3 => h[3] \in 0..59

\* the time of day parse_time_string returns, in time units
HourTime(h) ==
    ((h[1] * 60 + (IF Len(h) >= 2 THEN h[2] ELSE 0)) * 60
      + (IF Len(h) = 3 THEN h[3] ELSE 0)) * Second

\* max(filter(None, [self.last_rain, self.last_sprinkle]))
LastEvent(c) == Max(c.last_rain, c.last_sprinkle)

\* a gate that also blocks on the day the interval is over
IntervalGateInclusive(c, month_config, t) ==
    DateOf(t) - DateOf(LastEvent(c)) <= month_config.interval_days

\* days_since_last_event < interval_days
IntervalGateBlocks(c, month_config, t) ==
    DateOf(t) - DateOf(LastEvent(c)) < month_config.interval_days

calculate_sprinkle_target_amounts(c, cfg, t) ==
    LET month_config == c.schedule[MonthIndex(DateOf(t)) + 1]
        watering_hours == NonEmptyHours(month_config.hours)
        occurrences == Len(watering_hours)
    IN  IF IntervalGateBlocks(c, month_config, t) THEN ZeroPerStation
        ELSE IF occurrences = 0 THEN ZeroPerStation
        ELSE [s \in Stations |->
                LET total_minutes == month_config.stations[s] * occurrences
                IN  IF total_minutes > 0
                    THEN RoundHalfEven(c.water_flow_rate[s] * total_minutes * MmScale,
                                       AreaOf(cfg, s))
                    ELSE 0]

needs_watering_today(c) ==
    \E s \in Stations :
        c.sprinkle_target_amount_today[s]
          - (c.sprinkle_total_amount_today[s] + c.rain_total_amount_forecasted_today) > 0

\* a reset that also zeroes the water consumed
reset_begin_zeroing(c) ==
    [c EXCEPT !.has_rained_today = FALSE,
              !.will_it_rain_today = FALSE,
              !.rain_time_today = 0,
              !.rain_total_amount_today = 0,
              !.sprinkle_total_amount_today = ZeroPerStation,
              !.total_water_consumption = 0]

\* reset_rain_sprinkle_indicators up to its await of the weather provider
reset_begin(c) ==
    [c EXCEPT !.has_rained_today = FALSE,
              !.will_it_rain_today = FALSE,
              !.rain_time_today = 0,
              !.rain_total_amount_today = 0,
              !.sprinkle_total_amount_today = ZeroPerStation]

\* lines 653-656: the forecast of the provider, or 0 without one
with_forecast(c, cfg, forecast) ==
    [c EXCEPT !.rain_total_amount_forecasted_today = IF cfg.weather THEN forecast ELSE 0]

\* a variant that lets the amount still to sprinkle go below zero
with_targets_signed(c, target, t) ==
    [c EXCEPT
       !.sprinkle_target_amount_today = target,
       !.forecasted_sprinkle_today =
           [s \in Stations |-> target[s] - c.rain_total_amount_forecasted_today],
       !.last_reset = t]

\* lines 657-662: the targets, the net amounts still to sprinkle, last_reset
with_targets(c, target, t) ==
    [c EXCEPT
       !.sprinkle_target_amount_today = target,
       !.forecasted_sprinkle_today =
           [s \in Stations |-> Max(0, target[s] - c.rain_total_amount_forecasted_today)],
       !.last_reset = t]

\* reset_rain_sprinkle_indicators from the provider's answer `forecast` on
reset_finish(w, cfg, t, forecast) ==
    save_persistent_data(
        [w EXCEPT !.c = with_targets(
                            with_forecast(w.c, cfg, forecast),
                            calculate_sprinkle_target_amounts(
                                with_forecast(w.c, cfg, forecast), cfg, t),
                            t)])

\* The record kept of the calls of reset_rain_sprinkle_indicators: the day of
\* the last call, the number of calls on that day, the arrays the first call of
\* the day that ran to its end produced, whether a later call of the same day
\* found accumulators to zero, and whether one produced other arrays.
NoResets == [day |-> 0, calls |-> 0, produced |-> FALSE,
             target |-> ZeroPerStation, forecasted |-> ZeroPerStation,
             rezeroed |-> FALSE, differs |-> FALSE]

\* the accumulators of the day hold something
Accumulated(c) ==
    \/ c.sprinkle_total_amount_today # ZeroPerStation
    \/ c.rain_total_amount_today # 0
    \/ c.has_rained_today

\* the record after a call at time t that found the world w and left w2
LogReset(w, w2, t, completed) ==
    LET log == w.rs
        same == completed /\ w2.c.sprinkle_target_amount_today = log.target
                          /\ w2.c.forecasted_sprinkle_today = log.forecasted
    IN  IF log.calls > 0 /\ log.day = DateOf(t)
        THEN [log EXCEPT
                !.calls = @ + 1,
                !.rezeroed = @ \/ Accumulated(w.c),
                !.differs = @ \/ (completed /\ log.produced /\ ~same),
                !.produced = @ \/ completed,
                !.target = IF ~log.produced /\ completed
                           THEN w2.c.sprinkle_target_amount_today ELSE @,
                !.forecasted = IF ~log.produced /\ completed
                               THEN w2.c.forecasted_sprinkle_today ELSE @]
        ELSE [day |-> DateOf(t), calls |-> 1, produced |-> completed,
              target |-> IF completed THEN w2.c.sprinkle_target_amount_today
                         ELSE ZeroPerStation,
              forecasted |-> IF completed THEN w2.c.forecasted_sprinkle_today
                             ELSE ZeroPerStation,
              rezeroed |-> FALSE, differs |-> FALSE]

\* the provider answers the reset's request of the forecast
ResetCompletes(cfg, x) == ~(cfg.weather /\ ~x.wx_ok)

\* the world w2 a call left, with the call recorded
reset_logged(w, w2, t, completed) == [w2 EXCEPT !.rs = LogReset(w, w2, t, completed)]

\* reset_rain_sprinkle_indicators, a whole call; with a provider that fails
\* (x.wx_ok false) the call ends where it awaited the forecast
reset_rain_sprinkle_indicators(w, cfg, t, x) ==
    reset_logged(w,
                 IF ResetCompletes(cfg, x)
                 THEN reset_finish([w EXCEPT !.c = reset_begin(w.c)], cfg, t, x.forecast)
                 ELSE [w EXCEPT !.c = reset_begin(w.c)],
                 t, ResetCompletes(cfg, x))

\* ------------------------------------------------------------------------
\* Stop-all, in the pieces between its awaits
\* ------------------------------------------------------------------------
\* api.turn_off_all_station_switches: an off command goes to every
\* switch entity; the calls in `failed` raise, which is logged and passed over
turn_off_all_station_switches(w, cfg, failed) ==
    [w EXCEPT
       !.sw = [s \in Stations |->
                 IF HasSwitch(cfg, s) /\ s \notin failed THEN FALSE ELSE w.sw[s]],
       !.off = @ \cup {s \in Stations : HasSwitch(cfg, s)}]

\* stop_irrigation after its strategy call returned: the stop signal is set and,
\* under the switch strategy, the session record dropped (the save is awaited next)
stop_signal(w, cfg) ==
    [w EXCEPT !.c.irrigation_stop_event = TRUE,
              !.c.active_irrigation =
                  IF _is_switch_control_method(cfg) THEN NoSession ELSE @]

\* a stop_irrigation that leaves the stations' states as they are
stop_mark_left(w) == w

\* stop_irrigation: every station is marked Stopped
stop_mark(w) == [w EXCEPT !.c.stations = AllStopped]

\* ------------------------------------------------------------------------
\* async_update_all_sensors (a poll).  `x` is what the environment answers during
\* the poll: x.wx_ok (the weather provider answers), x.is_raining, x.will_rain,
\* x.forecast (mm forecast for the rest of today), x.rain_now (mm of rain the
\* current conditions attribute to one poll interval), x.svc_ok (a remote
\* stop_sprinkle call succeeds).
\* ------------------------------------------------------------------------
NoWeather == [wx_ok |-> TRUE, is_raining |-> FALSE, will_rain |-> FALSE,
              forecast |-> 0, rain_now |-> 0, svc_ok |-> TRUE]

\* now.time() > 00:05:00 and last_reset.date() != now.date()
PollResetDue(c, t) ==
    TimeOf(t) > ResetAfterSeconds * Second /\ DateOf(c.last_reset) # DateOf(t)

\* the daily reset inside a poll; an exception of the reset is caught and logged,
\* which leaves what the reset had done before the provider failed
poll_reset(w, cfg, t, x) ==
    IF PollResetDue(w.c, t) THEN reset_rain_sprinkle_indicators(w, cfg, t, x) ELSE w

poll_weather(c, cfg, x) ==
    [c EXCEPT !.will_it_rain_today = cfg.weather /\ x.will_rain,
              !.is_raining_now = cfg.weather /\ x.is_raining]

\* if self.is_raining_now: the rain accounting of one poll (poll_interval / 60 = 1 minute)
poll_rain(c, t, x) ==
    IF c.is_raining_now
    THEN [c EXCEPT !.has_rained_today = TRUE,
                   !.last_rain = t,
                   !.rain_time_today = @ + 1,
                   !.rain_total_amount_today = @ + x.rain_now]
    ELSE c

\* the forecast total, (the next watering date,) and the save that ends a poll
poll_tail(w, cfg, x) ==
    save_persistent_data(
        [w EXCEPT !.c.rain_total_amount_forecasted_today =
             (IF cfg.weather THEN x.forecast ELSE 0) + w.c.rain_total_amount_today])

\* a stop for rain that does not look at sprinkle_with_rain
RainStopHeedless(c, cfg) ==
    /\ c.is_raining_now
    /\ \E s \in Stations : c.stations[s] = "Sprinkling"

\* rain stops watering: not sprinkle_with_rain and some station is Sprinkling
RainStopDue(c, cfg) ==
    /\ c.is_raining_now
    /\ ~cfg.sprinkle_with_rain
    /\ \E s \in Stations : c.stations[s] = "Sprinkling"

\* lines 961-984 without the stop: the weather flags and the rain accounting
with_weather(w, cfg, t, x) ==
    [w EXCEPT !.c = poll_rain(poll_weather(w.c, cfg, x), t, x)]

\* the poll that stop_irrigation makes when it was itself called from a poll,
\* from the weather on: every station is Stopped by then, so this one calls no
\* further stop
poll_in_stop_body(w1, cfg, t, x) ==
    IF cfg.weather /\ ~x.wx_ok
    THEN [w |-> w1, raised |-> TRUE]
    ELSE [w |-> poll_tail(with_weather(w1, cfg, t, x), cfg, x), raised |-> FALSE]

poll_in_stop(w, cfg, t, x) == poll_in_stop_body(poll_reset(w, cfg, t, x), cfg, t, x)

\* stop_irrigation called from within a poll, run to its end
stop_in_poll(w, cfg, t, x) ==
    IF _is_switch_control_method(cfg)
    THEN poll_in_stop(
             stop_mark(save_persistent_data(
                 stop_signal(turn_off_all_station_switches(w, cfg, {}), cfg))),
             cfg, t, x)
    ELSE IF ~x.svc_ok THEN [w |-> w, raised |-> FALSE]
    ELSE poll_in_stop(stop_mark(stop_signal(w, cfg)), cfg, t, x)

\* lines 986-1328: unless the stop raised, the forecast total and the save
poll_finish(r, cfg, x) ==
    IF r.raised THEN r ELSE [w |-> poll_tail(r.w, cfg, x), raised |-> FALSE]

\* lines 974-984: rain stops the watering
poll_rain_stop(w2, cfg, t, x) ==
    IF RainStopDue(w2.c, cfg)
    THEN poll_finish(stop_in_poll(w2, cfg, t, x), cfg, x)
    ELSE [w |-> poll_tail(w2, cfg, x), raised |-> FALSE]

\* lines 959-1328: the poll after the daily reset
poll_body(w1, cfg, t, x) ==
    IF cfg.weather /\ ~x.wx_ok
    THEN [w |-> w1, raised |-> TRUE]
    ELSE poll_rain_stop(with_weather(w1, cfg, t, x), cfg, t, x)

async_update_all_sensors(w, cfg, t, x) == poll_body(poll_reset(w, cfg, t, x), cfg, t, x)

\* ------------------------------------------------------------------------
\* State
\* ------------------------------------------------------------------------
VARIABLES
    now,        \* dt_util.now(), in time units
    cfg,        \* the config entry: control method, switch entities, areas, weather
    coord,      \* the coordinator object's attributes
    storage,    \* the Store: the persisted snapshot
    switches,   \* the host's switch outputs, per station: TRUE is on
    off_now,    \* the stations whose output the last step issued an off command to
    sessions,   \* the start_irrigation coroutines in flight
    stops,      \* the stop_irrigation coroutines in flight
    timers,     \* the _async_stop_irrigation_after_delay tasks, asleep
    callbacks,  \* the host's armed time callbacks (async_track_time_change, async_call_later)
    initPc,     \* where async_init stands: "load", "restore", "schedule", "poll", "run"
    env,        \* how often the environment has acted (bounds the behaviours)
    obs         \* observations of the run that the properties speak about

vars == <<now, cfg, coord, storage, switches, off_now, sessions, stops, timers,
          callbacks, initPc, env, obs>>

\* the world a step starts from: no off command issued yet in this step
World == [c |-> coord, store |-> storage, sw |-> switches, off |-> {}, rs |-> obs.resets]

SetWorld(w) ==
    /\ coord' = w.c
    /\ storage' = w.store
    /\ switches' = w.sw
    /\ off_now' = w.off

NumSessionSlots == MaxStarts + 1   \* the manual starts and a watering cycle
NumStopSlots == 2
SessionSlots == 1..NumSessionSlots
StopSlots == 1..NumStopSlots

IdleSession == [pc |-> "idle", station |-> 0, duration |-> 0, i |-> 0, wake |-> 0,
                started_at |-> 0, stop_pending |-> FALSE, in_cycle |-> FALSE,
                cycle_at |-> 0]
IdleStop == [pc |-> "idle", interfered |-> FALSE, origin |-> "none", commanded |-> {}]

\* the first free slot
FreeSession(k) ==
    /\ sessions[k].pc = "idle"
    /\ \A k2 \in SessionSlots : k2 < k => sessions[k2].pc # "idle"
FreeStop(j) ==
    /\ stops[j].pc = "idle"
    /\ \A j2 \in StopSlots : j2 < j => stops[j2].pc # "idle"

StartTime == StartDay * Day + Day - Minute   \* 23:59:00 on the start day
EndOfTime == StartTime + env.horizon * Minute + TailSeconds * Second

\* the environment (a person, the host's poll timer, a power cut) acts on a
\* minute boundary of the run, and a bounded number of times
InEnvWindow ==
    /\ (now - StartTime) % Minute = 0
    /\ now - StartTime < env.horizon * Minute
    /\ env.budget > 0

\* how long the process can be down at a restart: no time, half a second, a
\* minute less half a second, a minute
Downtimes == {0, 1, Minute - 1, Minute}

\* what the environment can answer during a poll: the provider answers and it
\* is dry, or (a bounded number of times, b being what is left of the bound)
\* it rains or the provider fails
Answers(b) ==
    {NoWeather} \cup
      IF cfg.weather /\ b > 0
      THEN {[NoWeather EXCEPT !.is_raining = TRUE, !.will_rain = TRUE],
            [NoWeather EXCEPT !.wx_ok = FALSE]}
      ELSE {}

\* an answer other than the usual one counts as an action of the environment
Spend(x) == IF x = NoWeather THEN env ELSE [env EXCEPT !.budget = @ - 1]

\* so does a service call of the host that fails
Fails(failed) ==
    /\ failed => env.budget > 0
    /\ env' = IF failed THEN [env EXCEPT !.budget = @ - 1] ELSE env

\* ------------------------------------------------------------------------
\* Observations
\* ------------------------------------------------------------------------
\* An obligation [station, deadline, kind] records that a session was started
\* (kind "session") or found at startup (kind "restore") and by when it has to
\* be over; it is met by an off command to the station's output (switch
\* strategy) or by the station's state being Stopped (remote-action strategy).
Met(ob, w) ==
    IF _is_switch_control_method(cfg)
    THEN ob.station \in w.off
    ELSE w.c.stations[ob.station] = "Stopped"

Settle(obls, w) == {ob \in obls : ~Met(ob, w)}

\* a step of the engine: the world it leaves, its name, the obligations it
\* creates, and whether a wait loop went past a stop signal set for it
Commit(w, tag, newObls, missed) ==
    /\ SetWorld(w)
    /\ obs' = [obs EXCEPT !.last = tag,
                          !.obligations = Settle(@, w) \cup newObls,
                          !.missed_stop = @ \/ missed,
                          !.resets = w.rs]

\* a step of the start phase of start_irrigation runs while a stop_irrigation
\* is between its strategy call and its return
Interfere == [j \in StopSlots |->
                IF stops[j].pc \in {"save", "poll"}
                THEN [stops[j] EXCEPT !.interfered = TRUE]
                ELSE stops[j]]

\* ------------------------------------------------------------------------
\* run_watering_cycle (no soil moisture sensor configured)
\* ------------------------------------------------------------------------
\* (t.hour, t.minute) of an hour string, in minutes of the day
HourMinute(h) == h[1] * 60 + (IF Len(h) >= 2 THEN h[2] ELSE 0)

\* occurrences_left = max(1, number of the month's hours at or after now's HH:MM)
\* a count of the runs left that leaves out the slot of the current minute
occurrences_left_strict(month_config, t) ==
    LET hours == NonEmptyHours(month_config.hours)
        current_hm == TimeOf(t) \div Minute
    IN  Max(1, Cardinality({n \in 1..Len(hours) :
                              ValidHour(hours[n]) /\ HourMinute(hours[n]) > current_hm}))

occurrences_left(month_config, t) ==
    LET hours == NonEmptyHours(month_config.hours)
        current_hm == TimeOf(t) \div Minute
    IN  Max(1, Cardinality({n \in 1..Len(hours) :
                              ValidHour(hours[n]) /\ HourMinute(hours[n]) >= current_hm}))

\* a sizing that rounds up with 1.999 in place of 0.999
minutes_needed_generous(c, s, t) ==
    IF c.schedule = <<>> THEN 0
    ELSE LET month_config == c.schedule[MonthIndex(DateOf(t)) + 1]
             daily_remaining_mm ==
                 Max(0, c.sprinkle_target_amount_today[s]
                          - (c.sprinkle_total_amount_today[s]
                               + c.rain_total_amount_forecasted_today))
             den == occurrences_left(month_config, t) * c.water_flow_rate[s] * MmScale
         IN  IF month_config.stations[s] <= 0 \/ daily_remaining_mm <= 0 THEN 0
             ELSE (1000 * daily_remaining_mm * AreaOf(cfg, s) + 1999 * den) \div (1000 * den)

\* minutes_needed = int(per_run_target_mm / mm_per_minute + 0.999) for station s,
\* 0 where the loop passes the station over
minutes_needed(c, s, t) ==
    IF c.schedule = <<>> THEN 0
    ELSE LET month_config == c.schedule[MonthIndex(DateOf(t)) + 1]
             scheduled_minutes == month_config.stations[s]
             daily_remaining_mm ==
                 Max(0, c.sprinkle_target_amount_today[s]
                          - (c.sprinkle_total_amount_today[s]
                               + c.rain_total_amount_forecasted_today))
             den == occurrences_left(month_config, t) * c.water_flow_rate[s] * MmScale
         IN  IF scheduled_minutes <= 0 \/ daily_remaining_mm <= 0 THEN 0
             ELSE (1000 * daily_remaining_mm * AreaOf(cfg, s) + 999 * den) \div (1000 * den)

\* the loop over the stations from station `from` on, up to the first strategy
\* call it awaits: the world then, the coroutine's position, and whether
\* start_irrigation was entered (`started` says whether it was before).  `t` is
\* the time at which the cycle fired: the month and occurrences_left are
\* computed once, before the loop.
RECURSIVE CycleRun(_, _, _, _)
CycleRun(w, from, t, started) ==
    IF from > NumStations
    THEN [w |-> w, slot |-> IdleSession, started |-> started]
    ELSE LET m == minutes_needed(w.c, from, t)
             w1 == [w EXCEPT !.c.irrigation_stop_event = FALSE]
         IN  IF m = 0 THEN CycleRun(w, from + 1, t, started)
             ELSE IF _is_switch_control_method(cfg) /\ ~HasSwitch(cfg, from)
             THEN CycleRun(w1, from + 1, t, TRUE)
             ELSE [w |-> w1,
                   slot |-> [IdleSession EXCEPT !.pc = "call", !.station = from,
                                                !.duration = m, !.in_cycle = TRUE,
                                                !.cycle_at = t],
                   started |-> TRUE]

\* what hass.states.get(soil_moisture_sensor) can give: no state object, the
\* states "unknown" and "unavailable", a text float() rejects, "nan", a number
NoReading == [kind |-> "none", value |-> 0]
Readings ==
    {NoReading,
     [kind |-> "unknown", value |-> 0],
     [kind |-> "unavailable", value |-> 0],
     [kind |-> "text", value |-> 0],
     [kind |-> "nan", value |-> 0]}
      \cup {[kind |-> "number", value |-> v] : v \in SoilValues}

\* the readings the cycle can meet: the sensor is read only when one is configured
ReadingsFor(config) == IF config.soil_moisture_sensor THEN Readings ELSE {NoReading}

\* a gate that lets a reading equal to the threshold pass
SoilGateStrict(reading) ==
    /\ cfg.soil_moisture_sensor
    /\ reading.kind = "number"
    /\ reading.value > cfg.soil_moisture_threshold

\* lines 827-852: the cycle returns at once when a sensor is configured and
\* float(state.state) >= soil_moisture_threshold
SoilGateSkips(reading) ==
    /\ cfg.soil_moisture_sensor
    /\ reading.kind = "number"
    /\ reading.value >= cfg.soil_moisture_threshold

\* run_watering_cycle fired at time t, up to the first strategy call it awaits
run_watering_cycle(w, reading, t) ==
    IF SoilGateSkips(reading)
    THEN [w |-> w, slot |-> IdleSession, started |-> FALSE]
    ELSE CycleRun(w, 1, t, FALSE)

\* start_irrigation returns to its caller: a watering cycle goes on with the
\* next station
SessionReturn(k, w) ==
    IF sessions[k].in_cycle
    THEN CycleRun(w, sessions[k].station + 1, sessions[k].cycle_at, FALSE)
    ELSE [w |-> w, slot |-> IdleSession, started |-> FALSE]

\* ------------------------------------------------------------------------
\* start_irrigation(station, minutes), coroutine k
\* ------------------------------------------------------------------------
\* line 1373: the stop signal is cleared; the strategy call is awaited.  With no
\* switch entity for the station the call raises before any await and
\* start_irrigation returns.
BeginStart(k, s, d) ==
    /\ FreeSession(k)
    /\ sessions' = [sessions EXCEPT ![k] =
          IF _is_switch_control_method(cfg) /\ ~HasSwitch(cfg, s)
          THEN IdleSession
          ELSE [IdleSession EXCEPT !.pc = "call", !.station = s, !.duration = d]]
    /\ stops' = Interfere
    /\ Commit([World EXCEPT !.c.irrigation_stop_event = FALSE],
              IF _is_switch_control_method(cfg) /\ ~HasSwitch(cfg, s)
              THEN "start_failed" ELSE "start_called",
              {}, FALSE)

\* the manual trigger
StartIrrigation(k, s, d) ==
    /\ initPc = "run"
    /\ InEnvWindow
    /\ env.starts < MaxStarts
    /\ BeginStart(k, s, d)
    /\ env' = [env EXCEPT !.starts = @ + 1, !.budget = @ - 1]
    /\ UNCHANGED <<now, cfg, timers, callbacks, initPc>>

\* the loop's test of the stop signal and what follows it
\* (lines 1405-1408, 1421-1436): the next pc of the coroutine
AfterLoop == IF _is_switch_control_method(cfg) THEN "turn_off" ELSE "poll_end"

\* last_sprinkle = now, reached without an await under the remote-action strategy
LeaveLoop(c) ==
    IF _is_switch_control_method(cfg) THEN c ELSE [c EXCEPT !.last_sprinkle = now]

\* a failure path that marks the station Sprinkling before it returns
ActionFailedMarking(k) ==
    /\ sessions[k].pc = "call"
    /\ sessions' = [sessions EXCEPT ![k] = IdleSession]
    /\ stops' = stops
    /\ Commit([World EXCEPT !.c.stations[sessions[k].station] = "Sprinkling"],
              "start_failed", {}, FALSE)
    /\ UNCHANGED <<now, cfg, timers, callbacks, initPc>>
    /\ Fails(TRUE)

\* the strategy call of start_irrigation fails: APIConnectionError, return
ActionFailed(k) ==
    /\ sessions[k].pc = "call"
    /\ LET r == SessionReturn(k, World)
       IN  /\ sessions' = [sessions EXCEPT ![k] = r.slot]
           /\ stops' = IF r.started THEN Interfere ELSE stops
           /\ Commit(r.w, "start_failed", {}, FALSE)
    /\ UNCHANGED <<now, cfg, timers, callbacks, initPc>>
    /\ Fails(TRUE)

\* the strategy call succeeds.  Switch: the output is on, the session record is
\* set (lines 1378-1385) and the save awaited.  Remote action: the station is
\* Sprinkling (line 1396) and the poll awaited.
ActionDone(k) ==
    /\ sessions[k].pc = "call"
    /\ LET s == sessions[k].station
           d == sessions[k].duration
       IN  IF _is_switch_control_method(cfg)
           THEN /\ sessions' = [sessions EXCEPT ![k].pc = "save_active",
                                                ![k].started_at = now]
                /\ Commit([World EXCEPT
                             !.sw[s] = TRUE,
                             !.c.active_irrigation =
                                 [station |-> s, start_at |-> now,
                                  end_at |-> now + d * Minute,
                                  duration_minutes |-> d]],
                          "start_on",
                          {[station |-> s, deadline |-> now + d * Minute + Second,
                            kind |-> "session"]},
                          FALSE)
           ELSE /\ sessions' = [sessions EXCEPT ![k].pc = "poll_start",
                                                ![k].started_at = now]
                /\ Commit([World EXCEPT !.c.stations[s] = "Sprinkling"],
                          "start_on",
                          {[station |-> s, deadline |-> now + d * Minute + Second,
                            kind |-> "session"]},
                          FALSE)
    /\ stops' = Interfere
    /\ UNCHANGED <<now, cfg, timers, callbacks, initPc, env>>

\* lines 1386-1397 (switch): the record is saved, the fail-safe timer armed
\* for duration * 60 seconds, the station Sprinkling; the poll is awaited
SaveActiveDone(k) ==
    /\ sessions[k].pc = "save_active"
    /\ LET s == sessions[k].station
           d == sessions[k].duration
       IN  /\ timers' = timers \cup {[station |-> s, fire_at |-> now + d * Minute]}
           /\ Commit([save_persistent_data(World) EXCEPT !.c.stations[s] = "Sprinkling"],
                     "start_saved", {}, FALSE)
    /\ sessions' = [sessions EXCEPT ![k].pc = "poll_start"]
    /\ stops' = Interfere
    /\ UNCHANGED <<now, cfg, callbacks, initPc, env>>

\* lines 1397-1408: the poll returns and the loop is entered: the stop signal is
\* tested and the first sleep(1) awaited.  An exception of the poll ends
\* start_irrigation there.
PollStartDone(k, x) ==
    /\ sessions[k].pc = "poll_start"
    /\ LET r == async_update_all_sensors(World, cfg, now, x)
       IN  IF r.raised
           THEN /\ sessions' = [sessions EXCEPT ![k] = IdleSession]
                /\ Commit(r.w, "start_poll_raised", {}, FALSE)
           ELSE IF r.w.c.irrigation_stop_event
           THEN /\ sessions' = [sessions EXCEPT ![k].pc = AfterLoop]
                /\ Commit([r.w EXCEPT !.c = LeaveLoop(@)], "loop_break", {}, FALSE)
           ELSE /\ sessions' = [sessions EXCEPT ![k].pc = "sleep",
                                                ![k].wake = now + Second]
                /\ Commit(r.w, "loop_entered", {}, FALSE)
    /\ UNCHANGED <<now, cfg, stops, timers, callbacks, initPc>>
    /\ env' = Spend(x)

\* lines 1408-1419: a sleep(1) ends; consumption and applied mm are added; after
\* duration * 60 iterations the station is Stopped, else the stop signal is
\* tested again and the next sleep awaited
Wake(k) ==
    /\ sessions[k].pc = "sleep"
    /\ now >= sessions[k].wake
    /\ LET s == sessions[k].station
           i == sessions[k].i + 1
           c1 == [coord EXCEPT
                    !.total_water_consumption = @ + LitresPerTick(coord, s),
                    !.sprinkle_total_amount_today[s] = @ + MmPerTick(coord, cfg, s)]
       IN  IF i = sessions[k].duration * SecondsPerMinute
           THEN /\ sessions' = [sessions EXCEPT ![k].pc = AfterLoop, ![k].i = i]
                /\ Commit([World EXCEPT !.c = LeaveLoop([c1 EXCEPT !.stations[s] = "Stopped"])],
                          "loop_done", {}, FALSE)
           ELSE IF c1.irrigation_stop_event
           THEN /\ sessions' = [sessions EXCEPT ![k].pc = AfterLoop, ![k].i = i]
                /\ Commit([World EXCEPT !.c = LeaveLoop(c1)], "loop_break", {}, FALSE)
           ELSE /\ sessions' = [sessions EXCEPT ![k].i = i, ![k].wake = now + Second]
                /\ Commit([World EXCEPT !.c = c1], "loop_tick", {},
                          sessions[k].stop_pending)
    /\ UNCHANGED <<now, cfg, stops, timers, callbacks, initPc, env>>

\* lines 1422-1433 (switch): turn_off_station_switch returned (an exception is
\* logged); the session record is dropped and the save awaited
TurnOffDone(k, ok) ==
    /\ sessions[k].pc = "turn_off"
    /\ LET s == sessions[k].station
       IN  Commit([World EXCEPT !.sw[s] = IF ok THEN FALSE ELSE @,
                                !.off = @ \cup {s},
                                !.c.active_irrigation = NoSession],
                  "session_off", {}, FALSE)
    /\ sessions' = [sessions EXCEPT ![k].pc = "save_end"]
    /\ UNCHANGED <<now, cfg, stops, timers, callbacks, initPc>>
    /\ Fails(~ok)

\* lines 1433-1438 (switch): saved; last_sprinkle = now; the poll is awaited
SaveEndDone(k) ==
    /\ sessions[k].pc = "save_end"
    /\ Commit([save_persistent_data(World) EXCEPT !.c.last_sprinkle = now],
              "session_saved", {}, FALSE)
    /\ sessions' = [sessions EXCEPT ![k].pc = "poll_end"]
    /\ UNCHANGED <<now, cfg, stops, timers, callbacks, initPc, env>>

\* lines 1438-1442: the last poll returns (or raises) and start_irrigation ends
PollEndDone(k, x) ==
    /\ sessions[k].pc = "poll_end"
    /\ LET p == async_update_all_sensors(World, cfg, now, x)
           r == IF p.raised THEN [w |-> p.w, slot |-> IdleSession, started |-> FALSE]
                ELSE SessionReturn(k, p.w)
       IN  /\ sessions' = [sessions EXCEPT ![k] = r.slot]
           /\ stops' = IF r.started THEN Interfere ELSE stops
           /\ Commit(r.w, "session_end", {}, FALSE)
    /\ UNCHANGED <<now, cfg, timers, callbacks, initPc>>
    /\ env' = Spend(x)

\* ------------------------------------------------------------------------
\* stop_irrigation, coroutine j
\* ------------------------------------------------------------------------
\* stop_irrigation is called: the strategy call is awaited
BeginStop(j, origin) ==
    /\ FreeStop(j)
    /\ stops' = [stops EXCEPT ![j] = [IdleStop EXCEPT !.pc = "call", !.origin = origin]]

\* the manual stop
StopIrrigation(j) ==
    /\ initPc = "run"
    /\ InEnvWindow
    /\ env.stop_calls < MaxStopCalls
    /\ BeginStop(j, "manual")
    /\ env' = [env EXCEPT !.stop_calls = @ + 1, !.budget = @ - 1]
    /\ Commit(World, "stop_called", {}, FALSE)
    /\ UNCHANGED <<now, cfg, sessions, timers, callbacks, initPc>>

\* a failure path that sets the stop signal before it returns
StopCallFailedSignalling(j) ==
    /\ stops[j].pc = "call"
    /\ ~_is_switch_control_method(cfg)
    /\ stops' = [stops EXCEPT ![j] = IdleStop]
    /\ Commit([World EXCEPT !.c.irrigation_stop_event = TRUE], "stop_failed", {}, FALSE)
    /\ UNCHANGED <<now, cfg, sessions, timers, callbacks, initPc>>
    /\ Fails(TRUE)

\* lines 1452-1454: the remote stop_sprinkle call fails: APIConnectionError, return
StopCallFailed(j) ==
    /\ stops[j].pc = "call"
    /\ ~_is_switch_control_method(cfg)
    /\ stops' = [stops EXCEPT ![j] = IdleStop]
    /\ Commit(World, "stop_failed", {}, FALSE)
    /\ UNCHANGED <<now, cfg, sessions, timers, callbacks, initPc>>
    /\ Fails(TRUE)

\* the wait loops in flight when the stop signal is set
MarkPending == [k \in SessionSlots |->
                  IF sessions[k].pc = "sleep"
                  THEN [sessions[k] EXCEPT !.stop_pending = TRUE]
                  ELSE sessions[k]]

\* lines 1447-1467: the strategy call returned.  Switch: every switch entity got
\* its off command (those in `failed` raised, which is passed over), the stop
\* signal is set, the session record dropped, the save awaited.  Remote action:
\* the signal is set, every station Stopped, the poll awaited.
StopCallDone(j, failed) ==
    /\ stops[j].pc = "call"
    /\ IF _is_switch_control_method(cfg)
       THEN /\ stops' = [stops EXCEPT
                           ![j].pc = "save",
                           ![j].commanded =
                               turn_off_all_station_switches(World, cfg, failed).off]
            /\ Commit(stop_signal(turn_off_all_station_switches(World, cfg, failed), cfg),
                      "stop_signalled", {}, FALSE)
       ELSE /\ failed = {}
            /\ stops' = [stops EXCEPT ![j].pc = "poll"]
            /\ Commit(stop_mark(stop_signal(World, cfg)), "stop_signalled", {}, FALSE)
    /\ sessions' = MarkPending
    /\ UNCHANGED <<now, cfg, timers, callbacks, initPc>>
    /\ Fails(failed # {})

\* lines 1461-1467 (switch): saved; every station Stopped; the poll awaited
StopSaveDone(j) ==
    /\ stops[j].pc = "save"
    /\ stops' = [stops EXCEPT ![j].pc = "poll"]
    /\ Commit(stop_mark(save_persistent_data(World)), "stop_marked", {}, FALSE)
    /\ UNCHANGED <<now, cfg, sessions, timers, callbacks, initPc, env>>

\* lines 1467-1468: the poll returns and stop_irrigation returns (or the poll
\* raises and stop_irrigation raises)
StopPollDone(j, x) ==
    /\ stops[j].pc = "poll"
    /\ LET r == async_update_all_sensors(World, cfg, now, x)
       IN  /\ SetWorld(r.w)
           /\ obs' = [obs EXCEPT
                        !.last = IF r.raised THEN "stop_raised"
                                 ELSE IF stops[j].interfered THEN "stop_returned_interfered"
                                 ELSE "stop_returned",
                        !.obligations = Settle(@, r.w),
                        !.resets = r.w.rs,
                        !.stop_offs = stops[j].commanded]
    /\ stops' = [stops EXCEPT ![j] = IdleStop]
    /\ UNCHANGED <<now, cfg, sessions, timers, callbacks, initPc>>
    /\ env' = Spend(x)

\* ------------------------------------------------------------------------
\* _async_stop_irrigation_after_delay(station, delay): the fail-safe timer of a
\* session and the deferred stop of the restart safety
\* ------------------------------------------------------------------------
\* lines 595-598: the sleep is over; stop_irrigation is called if the session
\* record still names the station
FireTimer(tm, j) ==
    /\ tm \in timers
    /\ now >= tm.fire_at
    /\ timers' = timers \ {tm}
    /\ IF coord.active_irrigation.station = tm.station
       THEN /\ BeginStop(j, "timer")
            /\ Commit(World, "timer_stop", {}, FALSE)
       ELSE /\ j = 1
            /\ stops' = stops
            /\ Commit(World, "timer_nothing", {}, FALSE)
    /\ UNCHANGED <<now, cfg, sessions, callbacks, initPc, env>>

\* ------------------------------------------------------------------------
\* Schedule arming
\* ------------------------------------------------------------------------
\* the months scanned from the current one, wrapping: the first with hours, or 0
FirstMonthWithHours(schedule, m0) ==
    LET cand == {i \in 0..11 : schedule[((m0 + i) % 12) + 1].hours # <<>>}
    IN  IF cand = {} THEN 0 ELSE ((m0 + SetMin(cand)) % 12) + 1

\* an arming that also takes the hours that are not later than now
check_and_schedule_watering_late(c, t) ==
    IF c.schedule = <<>> THEN {}
    ELSE LET m == FirstMonthWithHours(c.schedule, MonthIndex(DateOf(t)))
         IN  IF m = 0 THEN {}
             ELSE IF IntervalGateBlocks(c, c.schedule[m], t) THEN {}
             ELSE IF ~needs_watering_today(c) THEN {}
             ELSE LET hours_raw == c.schedule[m].hours
                  IN  {[at |-> DateOf(t) * Day + HourTime(hours_raw[n]), entry |-> n] :
                          n \in {n \in 1..Len(hours_raw) :
                                    hours_raw[n] # <<>> /\ ValidHour(hours_raw[n])}}

\* check_and_schedule_watering at time t: for every entry of the hours for which
\* a run_watering_cycle callback is armed, its place in the list and the local
\* time of today at which the callback fires
check_and_schedule_watering(c, t) ==
    IF c.schedule = <<>> THEN {}
    ELSE LET m == FirstMonthWithHours(c.schedule, MonthIndex(DateOf(t)))
         IN  IF m = 0 THEN {}
             ELSE IF IntervalGateBlocks(c, c.schedule[m], t) THEN {}
             ELSE IF ~needs_watering_today(c) THEN {}
             ELSE LET hours_raw == c.schedule[m].hours
                      at(h) == DateOf(t) * Day + HourTime(h)
                  IN  {[at |-> at(hours_raw[n]), entry |-> n] :
                          n \in {n \in 1..Len(hours_raw) :
                                    /\ hours_raw[n] # <<>>
                                    /\ ValidHour(hours_raw[n])
                                    /\ at(hours_raw[n]) - t > 0}}

\* the callbacks armed by one run of check_and_schedule_watering
ArmCycles(c, t, n) ==
    {[kind |-> "cycle", at |-> a.at, id |-> n, entry |-> a.entry] :
        a \in check_and_schedule_watering(c, t)}

\* setup_scheduled_tasks: the daily triggers at 00:00:00 and 00:01:00, each
\* due at the next time the clock shows its time of day
NextMidnight(t) == (DateOf(t) + 1) * Day
DailyTriggers(t) ==
    {[kind |-> "reset", at |-> NextMidnight(t), id |-> 0, entry |-> 0],
     [kind |-> "check",
      at |-> IF TimeOf(t) < Minute THEN DateOf(t) * Day + Minute
             ELSE NextMidnight(t) + Minute,
      id |-> 0, entry |-> 0]}

\* initialize_schedule with the station count unchanged: a schedule is created
\* and saved when none is stored
initialize_schedule(w) ==
    IF w.c.schedule = <<>>
    THEN save_persistent_data([w EXCEPT !.c.schedule = NewSchedule])
    ELSE w

\* ------------------------------------------------------------------------
\* _async_restore_active_irrigation at time t: the world it leaves, the deferred
\* stop it arms, and which of its cases applied
\* ------------------------------------------------------------------------
\* a stale session dropped in memory only: no off command, nothing saved
restore_stale_forgotten(w, a, ok) == [w EXCEPT !.c.active_irrigation = NoSession]

\* lines 556-568: a stale session: the station's switch is sent an off command
\* (`ok`: the call succeeds; a failure is logged), the record dropped and saved
restore_stale(w, a, ok) ==
    save_persistent_data(
        [w EXCEPT
           !.c.active_irrigation = NoSession,
           !.sw[a.station] = IF ok /\ HasSwitch(cfg, a.station) THEN FALSE ELSE @,
           !.off = IF HasSwitch(cfg, a.station) THEN @ \cup {a.station} ELSE @])

_async_restore_active_irrigation(w, t, ok) ==
    LET a == w.c.active_irrigation
        dropped == [w EXCEPT !.c.active_irrigation = NoSession]
        remaining_seconds == (a.end_at - t) \div Second
    IN  IF ~_is_switch_control_method(cfg) \/ a = NoSession
        THEN [w |-> dropped, timers |-> {}, case |-> "restore_none"]
        ELSE IF t >= a.end_at
        THEN [w |-> restore_stale(w, a, ok), timers |-> {}, case |-> "restore_stale"]
        ELSE IF remaining_seconds <= 0
        THEN [w |-> save_persistent_data(dropped), timers |-> {}, case |-> "restore_discarded"]
        ELSE [w |-> [w EXCEPT !.c.stations[a.station] = "Sprinkling"],
              timers |-> {[station |-> a.station, fire_at |-> t + remaining_seconds * Second]},
              case |-> "restore_armed"]

\* ------------------------------------------------------------------------
\* The process: restart and async_init
\* ------------------------------------------------------------------------
\* the process dies and comes up again `d` time units later: every coroutine and
\* timer is gone, the coordinator is constructed anew
Restart(d) ==
    /\ env.restarts < MaxRestarts
    /\ InEnvWindow
    /\ now' = now + d
    /\ env' = [env EXCEPT !.restarts = @ + 1, !.budget = @ - 1]
    /\ sessions' = [k \in SessionSlots |-> IdleSession]
    /\ stops' = [j \in StopSlots |-> IdleStop]
    /\ timers' = {}
    /\ callbacks' = {}
    /\ initPc' = "load"
    /\ Commit([World EXCEPT !.c = Constructor(now + d)], "restart", {}, FALSE)
    /\ UNCHANGED cfg

InitLoad ==
    /\ initPc = "load"
    /\ initPc' = "restore"
    /\ Commit([World EXCEPT !.c = load_persistent_data(coord, storage, now)], "loaded", {}, FALSE)
    /\ UNCHANGED <<now, cfg, sessions, stops, timers, callbacks, env>>

InitRestore(ok) ==
    /\ initPc = "restore"
    /\ initPc' = "schedule"
    /\ LET r == _async_restore_active_irrigation(World, now, ok)
           a == coord.active_irrigation
       IN  /\ timers' = timers \cup r.timers
           /\ obs' = [obs EXCEPT
                        !.last = r.case,
                        !.restored = a,
                        !.obligations = Settle(@, r.w) \cup
                            IF r.case \in {"restore_discarded", "restore_armed"}
                            THEN {[station |-> a.station, deadline |-> a.end_at,
                                   kind |-> "restore"]}
                            ELSE {}]
           /\ SetWorld(r.w)
    /\ UNCHANGED <<now, cfg, sessions, stops, callbacks>>
    /\ Fails(~ok)

\* initialize_schedule, check_and_schedule_watering, setup_scheduled_tasks
InitSchedule ==
    /\ initPc = "schedule"
    /\ initPc' = "poll"
    /\ LET w == initialize_schedule(World)
       IN  /\ callbacks' = callbacks \cup ArmCycles(w.c, now, obs.armings + 1)
                                     \cup DailyTriggers(now)
           /\ SetWorld(w)
           /\ obs' = [obs EXCEPT !.last = "armed", !.armings = @ + 1,
                                 !.obligations = Settle(@, w)]
    /\ UNCHANGED <<now, cfg, sessions, stops, timers, env>>

\* self.data = await self.async_update_all_sensors()
InitPoll(x) ==
    /\ initPc = "poll"
    /\ initPc' = "run"
    /\ Commit(async_update_all_sensors(World, cfg, now, x).w, "init_done", {}, FALSE)
    /\ UNCHANGED <<now, cfg, sessions, stops, timers, callbacks>>
    /\ env' = Spend(x)

\* ------------------------------------------------------------------------
\* The host's timers
\* ------------------------------------------------------------------------
\* the periodic poll (DataUpdateCoordinator): async_update_data catches what
\* async_update_all_sensors raises
Poll(x) ==
    /\ initPc = "run"
    /\ InEnvWindow
    /\ env.polls < MaxPolls
    /\ env' = [Spend(x) EXCEPT !.polls = @ + 1, !.budget = @ - 1]
    /\ Commit(async_update_all_sensors(World, cfg, now, x).w, "polled", {}, FALSE)
    /\ UNCHANGED <<now, cfg, sessions, stops, timers, callbacks, initPc>>

\* async_set_schedule (the set_irrigation_schedule service): the schedule is
\* replaced and saved, then a poll is made
ReplaceSchedule(new_schedule, x) ==
    /\ initPc = "run"
    /\ InEnvWindow
    /\ coord.schedule # new_schedule
    /\ env' = [Spend(x) EXCEPT !.budget = @ - 1]
    /\ Commit(async_update_all_sensors(
                  save_persistent_data([World EXCEPT !.c.schedule = new_schedule]),
                  cfg, now, x).w,
              "set_schedule", {}, FALSE)
    /\ UNCHANGED <<now, cfg, sessions, stops, timers, callbacks, initPc>>

\* 00:00:00: reset_rain_sprinkle_indicators; a failing provider ends it where it
\* awaited the forecast
FireReset(cb, x) ==
    /\ cb \in callbacks /\ cb.kind = "reset" /\ now >= cb.at
    /\ callbacks' = (callbacks \ {cb}) \cup {[cb EXCEPT !.at = @ + Day]}
    /\ Commit(reset_rain_sprinkle_indicators(World, cfg, now, x),
              IF cfg.weather /\ ~x.wx_ok THEN "reset_raised" ELSE "reset",
              {}, FALSE)
    /\ UNCHANGED <<now, cfg, sessions, stops, timers, initPc>>
    /\ env' = Spend(x)

\* 00:01:00: check_and_schedule_watering
FireCheck(cb) ==
    /\ cb \in callbacks /\ cb.kind = "check" /\ now >= cb.at
    /\ callbacks' = ((callbacks \ {cb}) \cup {[cb EXCEPT !.at = @ + Day]})
                      \cup ArmCycles(coord, now, obs.armings + 1)
    /\ SetWorld(World)
    /\ obs' = [obs EXCEPT !.last = "armed", !.armings = @ + 1,
                          !.obligations = Settle(@, World)]
    /\ UNCHANGED <<now, cfg, sessions, stops, timers, initPc, env>>

\* ------------------------------------------------------------------------
\* Time
\* ------------------------------------------------------------------------
\* the event loop has something to run now
Busy ==
    \/ initPc # "run"
    \/ \E k \in SessionSlots :
          \/ sessions[k].pc \notin {"idle", "sleep"}
          \/ sessions[k].pc = "sleep" /\ sessions[k].wake <= now
    \/ \E j \in StopSlots : stops[j].pc # "idle"
    \/ \E tm \in timers : tm.fire_at <= now
    \/ \E cb \in callbacks : cb.at <= now

\* the instants at which something asleep wakes
WakeTimes ==
    {sessions[k].wake : k \in {k \in SessionSlots : sessions[k].pc = "sleep"}}
      \cup {tm.fire_at : tm \in timers}
      \cup {cb.at : cb \in callbacks}

\* the next minute boundary of the run
NextBoundary == StartTime + ((now - StartTime) \div Minute + 1) * Minute

\* time passes, to the next instant at which something wakes or the environment
\* can act
Tick ==
    /\ ~Busy
    /\ now < EndOfTime
    /\ now' = SetMin({t \in WakeTimes \cup {NextBoundary, EndOfTime} : t > now})
    /\ SetWorld(World)
    /\ obs' = [obs EXCEPT !.last = "tick"]
    /\ UNCHANGED <<cfg, sessions, stops, timers, callbacks, initPc, env>>

\* async_call_later fires run_watering_cycle: the cycle runs up to the first
\* strategy call it awaits
FireCycle(cb, k) ==
    /\ cb \in callbacks /\ cb.kind = "cycle" /\ now >= cb.at
    /\ FreeSession(k)
    /\ callbacks' = callbacks \ {cb}
    /\ LET r == run_watering_cycle(World, env.soil, now)
       IN  /\ sessions' = [sessions EXCEPT ![k] = r.slot]
           /\ stops' = IF r.started THEN Interfere ELSE stops
           /\ Commit(r.w, IF SoilGateSkips(env.soil) THEN "cycle_skipped" ELSE "cycle",
                     {}, FALSE)
    /\ UNCHANGED <<now, cfg, timers, initPc, env>>

\* ------------------------------------------------------------------------
\* The configurations and the snapshots a run starts from
\* ------------------------------------------------------------------------
StationArea == 10        \* m2 of station 1; station 2 has no area configured
ScheduledMinutes == 1    \* minutes per run of station 1 in the schedule
IntervalDays == 2        \* interval_days of the schedule
MaxLastAgo == 2          \* the last rain and watering are at most this many days back

\* the config entry: the strategy, the mapped switch entities, the areas, whether
\* a weather provider is configured
Config(method, n, wx) ==
    [irrigation_control_method |-> method,
     num_switches |-> n,
     station_areas |-> [s \in Stations |-> IF s = 1 THEN StationArea ELSE 0],
     weather |-> wx,
     sprinkle_with_rain |-> FALSE,
     soil_moisture_sensor |-> FALSE,
     soil_moisture_threshold |-> 0]

\* a schedule set through set_schedule: station 1 runs at 23:59:30 and at 00:06 (the list
\* of hours also holds an empty string)
EveningSchedule ==
    [m \in 1..12 |-> [interval_days |-> IntervalDays,
                      stations |-> [s \in Stations |->
                                      IF s = 1 THEN ScheduledMinutes ELSE 0],
                      hours |-> << <<23, 59, 30>>, <<>>, <<0, 6>> >>]]

\* the snapshot an earlier process left: the day's reset ran at 00:00 of the start
\* day, the last rain and watering were `ago` days before the start day
Established(config, ago) ==
    LET t0 == StartDay * Day
        last == (StartDay - ago) * Day + Day \div 2
        c0 == [Constructor(t0) EXCEPT !.schedule = EveningSchedule,
                                      !.last_rain = last, !.last_sprinkle = last]
        c1 == [c0 EXCEPT
                 !.sprinkle_target_amount_today =
                     IF ago = 0 THEN ZeroPerStation
                     ELSE calculate_sprinkle_target_amounts(c0, config, t0)]
    IN  Snapshot([c1 EXCEPT !.forecasted_sprinkle_today = c1.sprinkle_target_amount_today])

\* a session run: a fresh installation, a few actions of the environment
SessionRun ==
    /\ cfg \in {Config("switch", NumStations, FALSE),
                Config("switch", NumStations - 1, FALSE),
                Config("service", 0, FALSE),
                Config("service", 0, TRUE)}
    /\ storage = NoData
    /\ env = [starts |-> 0, stop_calls |-> 0, restarts |-> 0, polls |-> 0,
              budget |-> SessionBudget, horizon |-> SessionHorizon,
              soil |-> NoReading]

\* a daily run: an established installation with a schedule and a weather
\* provider, over midnight
DailyRun ==
    /\ cfg \in {Config("switch", NumStations, TRUE), Config("service", 0, TRUE)}
    /\ storage \in {Established(cfg, ago) : ago \in 0..MaxLastAgo}
    /\ env = [starts |-> 0, stop_calls |-> 0, restarts |-> 0, polls |-> 0,
              budget |-> DailyBudget, horizon |-> DailyHorizon,
              soil |-> NoReading]

Boot ==
    /\ now = StartTime
    /\ coord = Constructor(StartTime)
    /\ switches = [s \in Stations |-> FALSE]
    /\ off_now = {}
    /\ sessions = [k \in SessionSlots |-> IdleSession]
    /\ stops = [j \in StopSlots |-> IdleStop]
    /\ timers = {}
    /\ callbacks = {}
    /\ initPc = "load"
    /\ obs = [last |-> "init", obligations |-> {}, missed_stop |-> FALSE,
              restored |-> NoSession, armings |-> 0, resets |-> NoResets,
              stop_offs |-> {}]

InitSession == SessionRun /\ Boot
InitDaily == DailyRun /\ Boot
Init == InitSession \/ InitDaily

Next ==
    \/ Tick
    \/ \E d \in Downtimes : Restart(d)
    \/ InitLoad
    \/ \E ok \in BOOLEAN : InitRestore(ok)
    \/ InitSchedule
    \/ \E x \in Answers(env.budget) : InitPoll(x)
    \/ \E x \in Answers(env.budget - 1) : Poll(x)
    \/ \E new_schedule \in {NewSchedule, EveningSchedule}, x \in Answers(env.budget - 1) :
          ReplaceSchedule(new_schedule, x)
    \/ \E cb \in callbacks, x \in Answers(env.budget) : FireReset(cb, x)
    \/ \E cb \in callbacks : FireCheck(cb)
    \/ \E cb \in callbacks, k \in SessionSlots : FireCycle(cb, k)
    \/ \E k \in SessionSlots, s \in Stations, d \in 1..MaxDuration : StartIrrigation(k, s, d)
    \/ \E k \in SessionSlots : ActionFailed(k)
    \/ \E k \in SessionSlots : ActionDone(k)
    \/ \E k \in SessionSlots : SaveActiveDone(k)
    \/ \E k \in SessionSlots, x \in Answers(env.budget) : PollStartDone(k, x)
    \/ \E k \in SessionSlots : Wake(k)
    \/ \E k \in SessionSlots, ok \in BOOLEAN : TurnOffDone(k, ok)
    \/ \E k \in SessionSlots : SaveEndDone(k)
    \/ \E k \in SessionSlots, x \in Answers(env.budget) : PollEndDone(k, x)
    \/ \E j \in StopSlots : StopIrrigation(j)
    \/ \E j \in StopSlots : StopCallFailed(j)
    \/ \E j \in StopSlots, failed \in SUBSET Stations : StopCallDone(j, failed)
    \/ \E j \in StopSlots : StopSaveDone(j)
    \/ \E j \in StopSlots, x \in Answers(env.budget) : StopPollDone(j, x)
    \/ \E tm \in timers, j \in StopSlots : FireTimer(tm, j)

Spec == Init /\ [][Next]_vars

\* ------------------------------------------------------------------------
\* Properties
\* ------------------------------------------------------------------------
\* the stations with a switch entity mapped
Mapped == {s \in Stations : HasSwitch(cfg, s)}

\* the step just taken was _async_restore_active_irrigation; obs.restored is the
\* session record it found
RestoreStep ==
    obs.last \in {"restore_none", "restore_stale", "restore_discarded", "restore_armed"}

\* C1: every session that start_irrigation started is over (the station is
\* Stopped or, with switches, its output has been sent an off command) no later
\* than its duration plus one one-second tick after it started, whatever else
\* ran in between, restarts of the process included.
SessionBounded ==
    \A ob \in obs.obligations : ob.kind = "session" => now <= ob.deadline

\* C2: once stop_irrigation has set the stop signal, every wait loop in flight
\* at that moment leaves at its next one-second checkpoint, whatever runs in
\* between: no wait loop goes on past a stop signal that was set for it.
StopObserved == ~obs.missed_stop

\* what stop_irrigation promises on return
StopPostcondition ==
    /\ coord.irrigation_stop_event
    /\ \A s \in Stations : coord.stations[s] = "Stopped"
    /\ _is_switch_control_method(cfg) =>
          /\ obs.stop_offs = Mapped
          /\ coord.active_irrigation = NoSession
          /\ storage.active_irrigation = NoSession

\* C3 (as stated): when the strategy call of stop_irrigation succeeded, then on
\* return the stop signal is set, every station is Stopped and, with switches,
\* every mapped output was sent an off command and the session record is null
\* in memory and in the snapshot.
StopReturnsStopped ==
    obs.last \in {"stop_returned", "stop_returned_interfered"} => StopPostcondition

\* C3 (amended): the same, for a stop_irrigation during which no
\* start_irrigation ran a step of its start phase between the strategy call and
\* the return.
StopReturnsStoppedUndisturbed ==
    obs.last = "stop_returned" => StopPostcondition

\* C3: a stop_irrigation returned undisturbed, with switches, after it had set
\* the signal for a wait loop in flight
StopReturned ==
    /\ obs.last = "stop_returned"
    /\ _is_switch_control_method(cfg)
    /\ \E k \in SessionSlots : sessions[k].stop_pending

\* C4: when the strategy call of start_irrigation fails, start_irrigation
\* returns to its caller and the step leaves the stations' states, the session
\* record (in memory and in the snapshot), the applied mm, the total
\* consumption and last_sprinkle as they were, and arms no timer.
StartFailureLeavesState ==
    [][obs'.last = "start_failed" =>
         /\ coord'.stations = coord.stations
         /\ coord'.active_irrigation = coord.active_irrigation
         /\ storage'.active_irrigation = storage.active_irrigation
         /\ coord'.sprinkle_total_amount_today = coord.sprinkle_total_amount_today
         /\ coord'.total_water_consumption = coord.total_water_consumption
         /\ coord'.last_sprinkle = coord.last_sprinkle
         /\ timers' = timers
         /\ \A k \in SessionSlots :
               (sessions[k].pc = "call" /\ sessions'[k] # sessions[k])
                  => sessions'[k].pc \in {"idle", "call"}]_vars

\* C4: a strategy call failed while another session was on record
StartFailed ==
    /\ obs.last = "start_failed"
    /\ coord.active_irrigation # NoSession
    /\ \E s \in Stations : coord.stations[s] = "Sprinkling"

\* C5: when the strategy call of stop_irrigation fails, the step leaves every
\* station's state and the session record as they were and the stop signal as
\* it was (not set by this call).
StopFailureLeavesState ==
    [][obs'.last = "stop_failed" =>
         /\ coord'.stations = coord.stations
         /\ coord'.active_irrigation = coord.active_irrigation
         /\ coord'.irrigation_stop_event = coord.irrigation_stop_event]_vars

\* C5: a stop call failed while a station was Sprinkling and the signal not set
StopFailed ==
    /\ obs.last = "stop_failed"
    /\ ~coord.irrigation_stop_event
    /\ \E s \in Stations : coord.stations[s] = "Sprinkling"

\* C6: at startup with switches, a persisted session whose end_at is at or
\* before now has its station's output sent an off command, the record set to
\* null in memory and in the snapshot, and nothing of the schedule is armed yet.
StaleSessionForcedOff ==
    (/\ RestoreStep
     /\ _is_switch_control_method(cfg)
     /\ obs.restored # NoSession
     /\ obs.restored.end_at <= now)
    => /\ obs.restored.station \in off_now
       /\ coord.active_irrigation = NoSession
       /\ storage.active_irrigation = NoSession
       /\ callbacks = {}
       /\ timers = {}
       /\ initPc = "schedule"

\* C6: the restart safety found a stale session
StaleSessionFound ==
    /\ obs.last = "restore_stale"
    /\ obs.restored.end_at <= now
    /\ obs.restored.station \in Mapped

\* C7: at startup with switches, a persisted session whose end_at is still to
\* come has its station marked Sprinkling and a deferred stop armed for the
\* remaining duration (to the second), and its output is sent an off command
\* no later than its end_at.
RestoredSessionKeepsEnd ==
    /\ (/\ RestoreStep
        /\ _is_switch_control_method(cfg)
        /\ obs.restored # NoSession
        /\ obs.restored.end_at > now)
       => /\ coord.stations[obs.restored.station] = "Sprinkling"
          /\ \E tm \in timers :
                /\ tm.station = obs.restored.station
                /\ tm.fire_at <= obs.restored.end_at
                /\ tm.fire_at > obs.restored.end_at - Second
    /\ \A ob \in obs.obligations : ob.kind = "restore" => now <= ob.deadline

\* C8: a second call of the daily reset on the same day finds nothing to zero
\* in the day's accumulators and produces the target and forecast arrays the
\* first call produced.
ResetOncePerDay == ~obs.resets.rezeroed /\ ~obs.resets.differs

\* some start_irrigation on station s is in flight, from its strategy call to
\* its return
SessionActive(s) ==
    \E k \in SessionSlots : sessions[k].pc # "idle" /\ sessions[k].station = s

\* a wait loop on station s ends a sleep(1) in this step
LoopIteration(s) ==
    \E k \in SessionSlots :
        /\ sessions[k].pc = "sleep"
        /\ sessions[k].station = s
        /\ sessions'[k].i = sessions[k].i + 1

\* reset_rain_sprinkle_indicators was called in this step
ResetCalled == obs'.resets # obs.resets

\* C9 (as stated): applied_mm of a station does not decrease while a session on
\* the station is active, and in every reachable state it exceeds target_mm by
\* at most one tick's contribution, for sessions of a watering cycle and for
\* manual ones.
AppliedWithinTarget ==
    /\ [](\A s \in Stations :
            coord.sprinkle_total_amount_today[s]
              <= coord.sprinkle_target_amount_today[s] + MmPerTick(coord, cfg, s))
    /\ [][\A s \in Stations :
            SessionActive(s) =>
                coord'.sprinkle_total_amount_today[s]
                  >= coord.sprinkle_total_amount_today[s]]_vars

\* C9 (amended): applied_mm of a station changes only by one tick's
\* contribution, added by an iteration of a wait loop on the station, or to
\* zero in a step that calls the daily reset, or at a restart and its load of
\* the snapshot; and a session that a watering cycle starts is sized to less
\* than one minute above the run's share of what is left of the target:
\* (duration - 1) minutes of flow stay below (target - applied - forecast) /
\* occurrences_left.  A manual session is not bounded by the target.
AppliedByTicks ==
    [][/\ \A s \in Stations :
            coord'.sprinkle_total_amount_today[s] # coord.sprinkle_total_amount_today[s]
            => \/ /\ LoopIteration(s)
                  /\ coord'.sprinkle_total_amount_today[s]
                       = coord.sprinkle_total_amount_today[s] + MmPerTick(coord, cfg, s)
               \/ /\ ResetCalled
                  /\ coord'.sprinkle_total_amount_today[s] = 0
               \/ obs'.last \in {"restart", "loaded"}
       /\ \A k \in SessionSlots :
            (/\ sessions'[k].in_cycle
             /\ sessions'[k].pc = "call"
             /\ sessions'[k] # sessions[k])
            => LET s == sessions'[k].station
                   month_config == coord'.schedule[MonthIndex(DateOf(now)) + 1]
                   left == coord'.sprinkle_target_amount_today[s]
                             - (coord'.sprinkle_total_amount_today[s]
                                  + coord'.rain_total_amount_forecasted_today)
               IN  /\ left > 0
                   /\ sessions'[k].duration >= 1
                   /\ (sessions'[k].duration - 1) * coord'.water_flow_rate[s] * MmScale
                          * occurrences_left(month_config, now)
                        < left * AreaOf(cfg, s)]_vars

\* C9: the wait loop of a session that a watering cycle started has added to
\* applied_mm
CycleSessionApplies ==
    /\ obs.last = "loop_tick"
    /\ \E k \in SessionSlots :
          /\ sessions[k].in_cycle
          /\ sessions[k].pc = "sleep"
          /\ sessions[k].i > 0
          /\ coord.sprinkle_total_amount_today[sessions[k].station] > 0

\* whole days from the most recent of last_rain and last_sprinkle to today
DaysSinceLastEvent == DateOf(now) - DateOf(Max(coord.last_rain, coord.last_sprinkle))

\* C10: after the daily reset ran to its end: with the most recent of
\* last_rain and last_sprinkle fewer than interval_days days before today,
\* every target is 0 and needs_watering_today is false; with it interval_days
\* days or more before today, the month having hours, every station with
\* positive minutes has a target above 0.
IntervalGating ==
    obs.last = "reset" =>
        LET month_config == coord.schedule[MonthIndex(DateOf(now)) + 1]
        IN  /\ DaysSinceLastEvent < month_config.interval_days
                 => /\ \A s \in Stations : coord.sprinkle_target_amount_today[s] = 0
                    /\ ~needs_watering_today(coord)
            /\ (/\ DaysSinceLastEvent >= month_config.interval_days
                /\ NonEmptyHours(month_config.hours) # <<>>)
                 => \A s \in Stations :
                       month_config.stations[s] > 0
                         => coord.sprinkle_target_amount_today[s] > 0

\* C10: the daily reset ran on the day the interval is over and set a target
IntervalOver ==
    /\ obs.last = "reset"
    /\ DaysSinceLastEvent = coord.schedule[MonthIndex(DateOf(now)) + 1].interval_days
    /\ coord.sprinkle_target_amount_today[1] > 0

\* ------------------------------------------------------------------------
\* The daily budget and the sizing of a cycle on their own: the engine stands
\* at an instant at which the midnight reset or a watering cycle is due, with
\* the schedule, the areas, the day's amounts and the soil sensor drawn from
\* small sets, and runs that one callback.
\* ------------------------------------------------------------------------
CalcAreas == {0, 7, 10}                       \* m2 of station 1 (0: not configured)
CalcMinutes == {0, 1, 10}                     \* minutes per run of station 1
CalcHours == {<< >>, << <<6, 0>> >>, << <<6, 0>>, << >>, <<20, 30>> >>}
CalcAgo == {1, 2, 3}                          \* days since the last rain and watering
CalcTargets == {0, 2400}                      \* target_mm of station 1, in hundredths
CalcApplied == {0, 1200, 2400}                \* applied_mm of station 1
CalcForecasts == {0, 19, 1199}                \* forecast rain of today
CalcTimes == {HourTime(<<5, 59>>), HourTime(<<6, 0, 59>>), HourTime(<<6, 1>>),
              HourTime(<<20, 30>>), HourTime(<<20, 31>>)}

CalcConfig(area, sensor) ==
    [Config("service", 0, FALSE) EXCEPT
        !.station_areas = [s \in Stations |-> IF s = 1 THEN area ELSE 0],
        !.soil_moisture_sensor = sensor,
        !.soil_moisture_threshold = SoilThreshold]

CalcSchedule(minutes, hours) ==
    [m \in 1..12 |-> [interval_days |-> IntervalDays,
                      stations |-> [s \in Stations |-> IF s = 1 THEN minutes ELSE 0],
                      hours |-> hours]]

\* the coordinator of an established installation in the middle of a day
CalcCoordinator(t, minutes, hours, ago, target, applied, forecast) ==
    [Constructor(t) EXCEPT
        !.schedule = CalcSchedule(minutes, hours),
        !.last_reset = DateOf(t) * Day,
        !.last_rain = (DateOf(t) - ago) * Day + Day \div 2,
        !.last_sprinkle = (DateOf(t) - ago) * Day + Day \div 2,
        !.sprinkle_target_amount_today = [s \in Stations |-> IF s = 1 THEN target ELSE 0],
        !.sprinkle_total_amount_today = [s \in Stations |-> IF s = 1 THEN applied ELSE 0],
        !.rain_total_amount_forecasted_today = forecast]

InitCalc ==
    /\ now \in {(StartDay + 1) * Day + tod : tod \in CalcTimes}
    /\ cfg \in {CalcConfig(area, sensor) : area \in CalcAreas, sensor \in BOOLEAN}
    /\ coord \in {CalcCoordinator(now, minutes, hours, ago, target, applied, forecast) :
                    minutes \in CalcMinutes, hours \in CalcHours, ago \in CalcAgo,
                    target \in CalcTargets, applied \in CalcApplied,
                    forecast \in CalcForecasts}
    /\ callbacks \in {{[kind |-> kind, at |-> now, id |-> 0, entry |-> 0]} : kind \in {"reset", "cycle"}}
    /\ storage = NoData
    /\ switches = [s \in Stations |-> FALSE]
    /\ off_now = {}
    /\ sessions = [k \in SessionSlots |-> IdleSession]
    /\ stops = [j \in StopSlots |-> IdleStop]
    /\ timers = {}
    /\ initPc = "run"
    /\ env \in {[starts |-> 0, stop_calls |-> 0, restarts |-> 0, polls |-> 0,
                 budget |-> 0, horizon |-> 0, soil |-> reading] :
                   reading \in ReadingsFor(cfg)}
    /\ obs = [last |-> "init", obligations |-> {}, missed_stop |-> FALSE,
              restored |-> NoSession, armings |-> 0, resets |-> NoResets,
              stop_offs |-> {}]

CalcNext ==
    \/ \E cb \in callbacks, x \in Answers(env.budget) : FireReset(cb, x)
    \/ \E cb \in callbacks, k \in SessionSlots : FireCycle(cb, k)

CalcSpec == InitCalc /\ [][CalcNext]_vars

\* today's month of the schedule, and its hours that are set
ThisMonth == coord.schedule[MonthIndex(DateOf(now)) + 1]
HoursSet == {n \in 1..Len(ThisMonth.hours) : ThisMonth.hours[n] # << >>}

\* C11: after the daily reset, when the interval gate passes and the month has
\* hours, the target of every station is (flow / area) x minutes per run x
\* number of hours, to the nearest hundredth of a mm, the area taken as 1 when
\* it is 0; when the month has no hours every target is 0.
TargetIsFlowTimesMinutes ==
    obs.last = "reset" =>
        /\ (DaysSinceLastEvent >= ThisMonth.interval_days /\ HoursSet # {})
             => \A s \in Stations :
                   LET area == IF cfg.station_areas[s] = 0 THEN 1 ELSE cfg.station_areas[s]
                       exact == coord.water_flow_rate[s] * ThisMonth.stations[s]
                                  * Cardinality(HoursSet) * MmScale
                       err == coord.sprinkle_target_amount_today[s] * area - exact
                   IN  2 * err <= area /\ -2 * err <= area
        /\ HoursSet = {} => \A s \in Stations : coord.sprinkle_target_amount_today[s] = 0

\* C11: area 10, flow 12, 10 minutes per run, 2 hours: the reset set 24.00 mm
TargetOfTheExample ==
    /\ obs.last = "reset"
    /\ cfg.station_areas[1] = 10
    /\ coord.water_flow_rate[1] = 12
    /\ ThisMonth.stations[1] = 10
    /\ Cardinality(HoursSet) = 2
    /\ coord.sprinkle_target_amount_today[1] = 2400

\* the quantities of the watering cycle for station 1 at the time it fires:
\* what is left of the day's target, the runs left today (the hours of the
\* month at or after the current hh:mm, at least 1), and the area and flow
RemainingToday ==
    Max(0, coord.sprinkle_target_amount_today[1]
             - (coord.sprinkle_total_amount_today[1]
                  + coord.rain_total_amount_forecasted_today))
RunsLeft ==
    Max(1, Cardinality({n \in HoursSet :
                          ThisMonth.hours[n][1] * 60 + ThisMonth.hours[n][2]
                             >= TimeOf(now) \div Minute}))
AreaOfFirst == IF cfg.station_areas[1] = 0 THEN 1 ELSE cfg.station_areas[1]
\* (remaining / runs left) / (flow / area) as the fraction PerRunNum / PerRunDen
PerRunNum == RemainingToday * AreaOfFirst
PerRunDen == RunsLeft * coord.water_flow_rate[1] * MmScale
SessionOfFirst(minutes) ==
    \E k \in SessionSlots : /\ sessions[k].pc = "call"
                            /\ sessions[k].station = 1
                            /\ sessions[k].duration = minutes
NoSessionStarted == \A k \in SessionSlots : sessions[k].pc = "idle"

BlockMinutes == 180      \* a forecast block lasts 3 hours
MaxBlocks == 2           \* the forecast list holds at most this many blocks

\* a forecast block: the date and hour of its dt_txt and its rain["3h"] in
\* hundredths of a mm, << >> when the block has no rain entry
RainBlocks ==
    [date : {StartDay + 1, StartDay + 2}, hour : {3, 6, 21}, rain : {<< >>, <<0>>, <<250>>}]
RECURSIVE SeqsUpTo(_, _)
SeqsUpTo(S, n) ==
    IF n = 0 THEN {<< >>}
    ELSE LET shorter == SeqsUpTo(S, n - 1)
         IN  shorter \cup {Append(q, x) : q \in shorter, x \in S}
RainForecasts == SeqsUpTo(RainBlocks, MaxBlocks)
RainTimes ==
    {HourTime(<<2, 59>>), HourTime(<<3, 0>>), HourTime(<<6, 0>>), HourTime(<<7, 30>>),
     HourTime(<<7, 30, 30>>), HourTime(<<8, 59>>), HourTime(<<9, 0>>), HourTime(<<23, 59>>)}

\* current_time = now.hour * 60 + now.minute
current_time(t) == TimeOf(t) \div Minute

\* a block that counts in full while it is in progress
block_rain_whole(item, t) ==
    LET rain_mm == IF item.rain = << >> THEN 0 ELSE item.rain[1]
    IN  IF item.date # DateOf(t) THEN 0
        ELSE IF item.hour * 60 + BlockMinutes <= current_time(t) THEN 0
        ELSE rain_mm * BlockMinutes

\* owm.py, the body of the loop: what one block adds to total_rain_mm, times
\* BlockMinutes (the block in progress adds remaining_minutes / 180 of its mm)
owm_block_rain(item, t) ==
    LET rain_mm == IF item.rain = << >> THEN 0 ELSE item.rain[1]
        forecast_start_minute == item.hour * 60
        forecast_end_minute == forecast_start_minute + BlockMinutes
    IN  IF item.date # DateOf(t) THEN 0
        ELSE IF forecast_end_minute <= current_time(t) THEN 0
        ELSE IF forecast_start_minute <= current_time(t) /\ current_time(t) < forecast_end_minute
             THEN (forecast_end_minute - current_time(t)) * rain_mm
        ELSE rain_mm * BlockMinutes

\* pirateweather.py, the body of the loop
pirateweather_block_rain(item, t) ==
    IF item.date # DateOf(t) THEN 0
    ELSE LET rain_mm == IF item.rain = << >> \/ item.rain = <<0>> THEN 0 ELSE item.rain[1]
             forecast_start_minute == item.hour * 60
             forecast_end_minute == forecast_start_minute + BlockMinutes
         IN  IF forecast_end_minute <= current_time(t) THEN 0
             ELSE IF forecast_start_minute <= current_time(t)
                       /\ current_time(t) < forecast_end_minute
                  THEN (forecast_end_minute - current_time(t)) * rain_mm
             ELSE rain_mm * BlockMinutes

\* get_total_rain_forecast_for_today of the provider, times BlockMinutes
RECURSIVE get_total_rain_forecast_for_today(_, _, _)
get_total_rain_forecast_for_today(provider, forecast, t) ==
    IF forecast = << >> THEN 0
    ELSE (IF provider = "owm" THEN owm_block_rain(Head(forecast), t)
          ELSE pirateweather_block_rain(Head(forecast), t))
           + get_total_rain_forecast_for_today(provider, Tail(forecast), t)

\* the provider is asked once, with the forecast list the API gave it
InitRain ==
    /\ now \in {(StartDay + 1) * Day + tod : tod \in RainTimes}
    /\ env \in [provider : {"owm", "pirateweather"}, forecast : RainForecasts]
    /\ obs = [last |-> "init", total |-> 0]
    /\ cfg = CalcConfig(0, FALSE)
    /\ coord = CalcCoordinator(now, 0, << >>, 1, 0, 0, 0)
    /\ callbacks = {}
    /\ storage = NoData
    /\ switches = [s \in Stations |-> FALSE]
    /\ off_now = {}
    /\ sessions = [k \in SessionSlots |-> IdleSession]
    /\ stops = [j \in StopSlots |-> IdleStop]
    /\ timers = {}
    /\ initPc = "run"

OwmTotal ==
    /\ env.provider = "owm" /\ obs.last = "init"
    /\ obs' = [last |-> "forecast",
               total |-> get_total_rain_forecast_for_today("owm", env.forecast, now)]
    /\ UNCHANGED <<now, cfg, coord, storage, switches, off_now, sessions, stops,
                   timers, callbacks, initPc, env>>

PirateWeatherTotal ==
    /\ env.provider = "pirateweather" /\ obs.last = "init"
    /\ obs' = [last |-> "forecast",
               total |-> get_total_rain_forecast_for_today("pirateweather", env.forecast, now)]
    /\ UNCHANGED <<now, cfg, coord, storage, switches, off_now, sessions, stops,
                   timers, callbacks, initPc, env>>

RainNext == OwmTotal \/ PirateWeatherTotal

RainSpec == InitRain /\ [][RainNext]_vars

\* the blocks of the forecast by their place in time, seen from the current minute
BlockAt(n) == env.forecast[n]
BlockEnded(n) ==
    BlockAt(n).date # DateOf(now) \/ BlockAt(n).hour * 60 + BlockMinutes <= current_time(now)
BlockMm(n) == IF BlockAt(n).rain = << >> THEN 0 ELSE BlockAt(n).rain[1]
\* the minutes of block n still to come, all of them for a block not yet begun
BlockMinutesLeft(n) ==
    IF BlockAt(n).hour * 60 > current_time(now) THEN BlockMinutes
    ELSE BlockAt(n).hour * 60 + BlockMinutes - current_time(now)
RECURSIVE SumOfBlocks(_)
SumOfBlocks(S) ==
    IF S = {} THEN 0
    ELSE LET n == CHOOSE x \in S : TRUE
         IN  BlockMm(n) * BlockMinutesLeft(n) + SumOfBlocks(S \ {n})

\* C13: the total is the sum, over today's blocks that have not ended, of the
\* block's mm, the block in progress counting for mm x remaining minutes / 180:
\* in full at the block's first minute, exactly half at its midpoint; blocks
\* that ended and blocks of other days add nothing
RainTotalIsProrated ==
    obs.last = "forecast" =>
        /\ obs.total = SumOfBlocks({n \in 1..Len(env.forecast) : ~BlockEnded(n)})
        /\ (\A n \in 1..Len(env.forecast) : BlockEnded(n)) => obs.total = 0
        /\ \A n \in 1..Len(env.forecast) :
              (Len(env.forecast) = 1 /\ ~BlockEnded(n)) =>
                 /\ current_time(now) = BlockAt(n).hour * 60
                      => obs.total = BlockMm(n) * BlockMinutes
                 /\ current_time(now) = BlockAt(n).hour * 60 + BlockMinutes \div 2
                      => 2 * obs.total = BlockMm(n) * BlockMinutes

\* C13: at 07:30 a block of 2.50 mm that began at 06:00 and a later block of
\* 2.50 mm give 1.25 + 2.50 mm
RainAtMidpoint ==
    /\ obs.last = "forecast" /\ current_time(now) = 7 * 60 + 30
    /\ Len(env.forecast) = 2
    /\ BlockAt(1) = [date |-> DateOf(now), hour |-> 6, rain |-> <<250>>]
    /\ BlockAt(2) = [date |-> DateOf(now), hour |-> 21, rain |-> <<250>>]
    /\ obs.total = 125 * BlockMinutes + 250 * BlockMinutes

\* ------------------------------------------------------------------------
\* api.py: the calls of the configured services and of the station switches
\* ------------------------------------------------------------------------
MaxParams == 2           \* an action has at most this many parameters
MaxSwitches == 3         \* at most this many station switch entities are mapped

\* text is a sequence of characters; the characters that occur
DigitChars == <<"0", "1", "2", "3", "4", "5", "6", "7", "8", "9">>
IsDigitChar(c) == \E d \in 1..10 : DigitChars[d] = c
DigitValue(c) == (CHOOSE d \in 1..10 : DigitChars[d] = c) - 1

\* str.strip()
RECURSIVE lstrip(_)
lstrip(v) == IF v # << >> /\ Head(v) = " " THEN lstrip(Tail(v)) ELSE v
RECURSIVE rstrip(_)
rstrip(v) ==
    IF v # << >> /\ v[Len(v)] = " " THEN rstrip(SubSeq(v, 1, Len(v) - 1)) ELSE v
strip(v) == rstrip(lstrip(v))

\* str.isdigit() and int() of a text of digits
isdigit(v) == v # << >> /\ \A i \in 1..Len(v) : IsDigitChar(v[i])
RECURSIVE DigitsValue(_)
DigitsValue(v) ==
    IF v = << >> THEN 0
    ELSE 10 * DigitsValue(SubSeq(v, 1, Len(v) - 1)) + DigitValue(v[Len(v)])

\* the texts float() accepts among those made of digits, a sign and a point:
\* an optional sign, then digits with at most one point and at least one digit
Unsigned(v) == IF v # << >> /\ Head(v) \in {"-", "+"} THEN Tail(v) ELSE v
PointsOf(v) == {i \in 1..Len(v) : v[i] = "."}
IsFloatText(v) ==
    LET u == Unsigned(v)
    IN  /\ \A i \in 1..Len(u) : IsDigitChar(u[i]) \/ u[i] = "."
        /\ Cardinality(PointsOf(u)) <= 1
        /\ \E i \in 1..Len(u) : IsDigitChar(u[i])
\* the float as num / 10^scale, with no trailing zero in the decimals
RECURSIVE Normal(_, _)
Normal(num, scale) ==
    IF scale > 0 /\ num % 10 = 0 THEN Normal(num \div 10, scale - 1)
    ELSE [type |-> "float", num |-> num, scale |-> scale]
FloatOf(v) ==
    LET u == Unsigned(v)
        digits == SelectSeq(u, IsDigitChar)
        scale == IF PointsOf(u) = {} THEN 0
                 ELSE Len(u) - (CHOOSE i \in PointsOf(u) : TRUE)
        sign == IF v # << >> /\ Head(v) = "-" THEN -1 ELSE 1
    IN  Normal(sign * DigitsValue(digits), scale)

IntValue(n) == [type |-> "int", num |-> n, scale |-> 0]
StrValue(v) == [type |-> "str", text |-> v]

\* a coercion that sends every literal as text
_coerce_never(value) == StrValue(strip(value))

\* _coerce_scalar, lines 44-64
_coerce_scalar(value) ==
    LET v == strip(value)
    IN  IF v = << >> THEN StrValue(<< >>)
        ELSE IF isdigit(v) \/ (Head(v) = "-" /\ isdigit(Tail(v)))
             THEN IntValue(IF Head(v) = "-" THEN -DigitsValue(Tail(v)) ELSE DigitsValue(v))
        ELSE IF IsFloatText(v) THEN FloatOf(v)
        ELSE StrValue(v)

\* the configured literals, the parameters and the services of an action
Literals ==
    {<< >>, <<" ">>, <<"3">>, <<"-", "3">>, <<"2", ".", "5", "0">>, <<" ", "z">>}
ParamNames == {<< >>, <<"s">>, <<"z">>}
ParamTypes == {"time", "station", "mac_address", "other"}
Params == [name : ParamNames, type : ParamTypes, value : Literals]
ServiceCalls == {<< >>, <<" ">>, <<"a">>, <<"a", ".", "b">>}
ValidService == <<"a", ".", "b">>
ControllerMacs == {<< >>, <<"m">>}
NoArg == << >>
\* sprinkle_station(5, 8) and stop_sprinkle()
Invocations ==
    {[action |-> "sprinkle_station", station |-> <<5>>, minutes |-> <<8>>],
     [action |-> "stop_sprinkle", station |-> NoArg, minutes |-> NoArg]}
SwitchEntities == {<< >>, <<" ">>, <<"w">>}
SwitchInvocations ==
    [action : {"turn_on_station_switch", "turn_off_station_switch"},
     station : 0..MaxSwitches + 1]

\* lines 169-193: the loop over the parameters from the n-th on; raised when a
\* mac-address parameter finds no controller identifier
RECURSIVE ResolveParams(_, _, _, _, _)
ResolveParams(params, n, payload, call, controller_mac) ==
    IF n > Len(params) THEN [raised |-> FALSE, payload |-> payload]
    ELSE LET p == params[n]
             name == strip(p.name)
         IN  IF name = << >>
             THEN ResolveParams(params, n + 1, payload, call, controller_mac)
             ELSE IF strip(p.value) # << >>
             THEN ResolveParams(params, n + 1, (name :> _coerce_scalar(p.value)) @@ payload,
                                call, controller_mac)
             ELSE IF p.type = "time" /\ call.minutes # NoArg
             THEN ResolveParams(params, n + 1, (name :> IntValue(call.minutes[1])) @@ payload,
                                call, controller_mac)
             ELSE IF p.type = "station" /\ call.station # NoArg
             THEN ResolveParams(params, n + 1, (name :> IntValue(call.station[1])) @@ payload,
                                call, controller_mac)
             ELSE IF p.type = "mac_address"
             THEN IF controller_mac = << >>
                  THEN [raised |-> TRUE, payload |-> payload]
                  ELSE ResolveParams(params, n + 1, (name :> StrValue(controller_mac)) @@ payload,
                                     call, controller_mac)
             ELSE ResolveParams(params, n + 1, payload, call, controller_mac)

\* a check of the service that accepts a name without a dot
ServiceNamed(service_call) == service_call # << >>
\* line 161: service_call is not empty and holds a dot
ServiceValid(service_call) ==
    service_call # << >> /\ \E i \in 1..Len(service_call) : service_call[i] = "."

\* _async_call_configured_service, lines 147-200: what was raised, and the
\* service calls made (hass.services.async_call raises when `fails`)
_async_call_configured_service(api, call, fails) ==
    LET action_cfg == api.service_actions[call.action]
        service_call == strip(action_cfg.service)
        r == ResolveParams(action_cfg.params, 1, << >>, call, api.controller_mac)
    IN  IF ~action_cfg.enabled THEN [error |-> "disabled", calls |-> << >>]
        ELSE IF ~ServiceValid(service_call) THEN [error |-> "no_service", calls |-> << >>]
        ELSE IF r.raised THEN [error |-> "no_mac", calls |-> << >>]
        ELSE [error |-> IF fails THEN "call_failed" ELSE "none",
              calls |-> << [service |-> service_call, payload |-> r.payload] >>]

\* _get_station_switch_entity, lines 110-118: << >> when it raises
_get_station_switch_entity(api, station) ==
    LET idx == station - 1
    IN  IF idx < 0 \/ idx >= Len(api.station_switch_entities) THEN << >>
        ELSE strip(api.station_switch_entities[idx + 1])

\* turn_on_station_switch and turn_off_station_switch, lines 120-134
turn_station_switch(api, call, fails) ==
    LET entity_id == _get_station_switch_entity(api, call.station)
    IN  IF entity_id = << >> THEN [error |-> "no_switch", calls |-> << >>]
        ELSE [error |-> IF fails THEN "call_failed" ELSE "none",
              calls |-> << [service |-> IF call.action = "turn_on_station_switch"
                                        THEN <<"switch.turn_on">> ELSE <<"switch.turn_off">>,
                            payload |-> (<<"entity_id">> :> StrValue(entity_id))] >>]

\* the API object: the controller identifier, the actions and the switches
Api(controller_mac, enabled, service, params, entities) ==
    [controller_mac |-> controller_mac,
     service_actions |-> [a \in {"sprinkle_station", "stop_sprinkle"} |->
                            [enabled |-> enabled, service |-> service, params |-> params]],
     station_switch_entities |-> entities]

\* one invocation is pending: of a configured service with any parameters, of
\* an action with any service and enabling, or of a station switch
InitApi ==
    /\ \/ /\ cfg \in {Api(m, TRUE, ValidService, ps, << >>) :
                        m \in ControllerMacs, ps \in SeqsUpTo(Params, MaxParams)}
          /\ env \in [call : Invocations, fails : BOOLEAN]
       \/ /\ cfg \in {Api(m, e, sc, ps, << >>) :
                        m \in ControllerMacs, e \in BOOLEAN, sc \in ServiceCalls,
                        ps \in SeqsUpTo(Params, 1)}
          /\ env \in [call : Invocations, fails : BOOLEAN]
       \/ /\ cfg \in {Api(<< >>, TRUE, << >>, << >>, es) :
                        es \in SeqsUpTo(SwitchEntities, MaxSwitches)}
          /\ env \in [call : SwitchInvocations, fails : BOOLEAN]
    /\ obs = [last |-> "init", error |-> "none", calls |-> << >>]
    /\ now = StartDay * Day
    /\ coord = CalcCoordinator(now, 0, << >>, 1, 0, 0, 0)
    /\ callbacks = {}
    /\ storage = NoData
    /\ switches = [s \in Stations |-> FALSE]
    /\ off_now = {}
    /\ sessions = [k \in SessionSlots |-> IdleSession]
    /\ stops = [j \in StopSlots |-> IdleStop]
    /\ timers = {}
    /\ initPc = "run"

\* sprinkle_station and stop_sprinkle, lines 202-212
CallConfiguredService ==
    /\ obs.last = "init"
    /\ env.call.action \in {"sprinkle_station", "stop_sprinkle"}
    /\ LET r == _async_call_configured_service(cfg, env.call, env.fails)
       IN  obs' = [last |-> "invoked", error |-> r.error, calls |-> r.calls]
    /\ UNCHANGED <<now, cfg, coord, storage, switches, off_now, sessions, stops,
                   timers, callbacks, initPc, env>>

TurnStationSwitch ==
    /\ obs.last = "init"
    /\ env.call.action \in {"turn_on_station_switch", "turn_off_station_switch"}
    /\ LET r == turn_station_switch(cfg, env.call, env.fails)
       IN  obs' = [last |-> "invoked", error |-> r.error, calls |-> r.calls]
    /\ UNCHANGED <<now, cfg, coord, storage, switches, off_now, sessions, stops,
                   timers, callbacks, initPc, env>>

ApiNext == CallConfiguredService \/ TurnStationSwitch

ApiSpec == InitApi /\ [][ApiNext]_vars

\* the parameters of the invoked action, and the payload of the call made
ParamsInvoked == cfg.service_actions[env.call.action].params
ServiceCalled ==
    /\ obs.last = "invoked" /\ obs.calls # << >>
    /\ env.call.action \in {"sprinkle_station", "stop_sprinkle"}
Sent == obs.calls[1].payload
Named == {i \in 1..Len(ParamsInvoked) : strip(ParamsInvoked[i].name) # << >>}
\* what the configured literals are as values
LiteralValue(value) ==
    CASE value = <<"3">> -> IntValue(3)
      [] value = <<"-", "3">> -> IntValue(-3)
      [] value = <<"2", ".", "5", "0">> -> [type |-> "float", num |-> 25, scale |-> 1]
      [] value = <<" ", "z">> -> StrValue(<<"z">>)
\* what parameter i is to carry, << >> when it is to be omitted
Carried(i) ==
    LET p == ParamsInvoked[i]
    IN  IF p.value \notin {<< >>, <<" ">>} THEN <<LiteralValue(p.value)>>
        ELSE IF p.type = "time" /\ env.call.minutes # NoArg
             THEN <<IntValue(env.call.minutes[1])>>
        ELSE IF p.type = "station" /\ env.call.station # NoArg
             THEN <<IntValue(env.call.station[1])>>
        ELSE IF p.type = "mac_address" THEN <<StrValue(cfg.controller_mac)>>
        ELSE << >>

RejectedWithoutCall ==
    obs.last = "invoked" =>
        LET action_cfg == cfg.service_actions[env.call.action]
            rejected ==
                IF env.call.action \in {"sprinkle_station", "stop_sprinkle"}
                THEN \/ ~action_cfg.enabled
                     \/ action_cfg.service \in {<< >>, <<" ">>, <<"a">>}
                     \/ /\ cfg.controller_mac = << >>
                        /\ \E i \in Named : /\ ParamsInvoked[i].type = "mac_address"
                                            /\ ParamsInvoked[i].value \in {<< >>, <<" ">>}
                ELSE \/ env.call.station < 1
                     \/ env.call.station > Len(cfg.station_switch_entities)
                     \/ cfg.station_switch_entities[env.call.station] \in {<< >>, <<" ">>}
        IN  /\ rejected => (obs.error # "none" /\ obs.calls = << >>)
            /\ ~rejected => obs.calls # << >>

\* C15: station 4 was asked for with 3 switch entities mapped: an error, no call
StationBeyondSwitches ==
    /\ obs.last = "invoked" /\ env.call.action = "turn_on_station_switch"
    /\ env.call.station = 4 /\ Len(cfg.station_switch_entities) = 3
    /\ obs.error = "no_switch" /\ obs.calls = << >>

\* C16: an operation that asks the weather provider goes to its end whether or
\* not the provider answers: once the daily reset has run, last_reset is the
\* time of the reset and the snapshot persisted holds it, and a start_irrigation
\* that polled goes on into its wait loop (or past it, when a stop was
\* signalled) instead of ending at the poll, unless the process restarts
WeatherFailureTolerated ==
    /\ [](obs.last \in {"reset", "reset_raised"}
            => coord.last_reset = now /\ storage.last_reset = now)
    /\ [][\A k \in SessionSlots :
             (/\ sessions[k].pc = "poll_start" /\ sessions'[k].pc # "poll_start"
              /\ obs'.last # "restart")
                => sessions'[k].pc \in {"sleep", AfterLoop}]_vars

\* ------------------------------------------------------------------------
\* The shape of the schedule: load, initialize_schedule, async_set_schedule and
\* update_config with a station count that changes
\* ------------------------------------------------------------------------
MaxStationCount == 3     \* num_stations is at most this
MonthsPerYear == 12      \* the months of a schedule that initialize_schedule creates
SentMinutes == 5         \* the minutes per run in a schedule the frontend sends

\* a month whose "stations" has the keys station_k_minutes for k in keys
ScheduleMonth(keys, minutes) ==
    [interval_days |-> 0, stations |-> [k \in keys |-> minutes], hours |-> << >>]

\* what the set_irrigation_schedule service can be called with (its data is
\* not validated): 11 or 12 months, any station keys in the first month and in
\* the others
SentSchedules ==
    {[m \in 1..len |-> ScheduleMonth(IF m = 1 THEN first ELSE others, SentMinutes)] :
        len \in {MonthsPerYear - 1, MonthsPerYear},
        first \in SUBSET (1..MaxStationCount), others \in SUBSET (1..MaxStationCount)}

\* lines 1550-1557: the keys 1..n are added with 0 minutes, the others deleted
reconcile_month(month_config, n) ==
    [month_config EXCEPT
        !.stations = [k \in 1..n |-> IF k \in DOMAIN month_config.stations
                                     THEN month_config.stations[k] ELSE 0]]

\* lines 1545-1557: the months are reconciled when the number of stations of
\* the first month differs from num_stations
reconcile_schedule(schedule, n) ==
    IF Cardinality(DOMAIN schedule[1].stations) # n
    THEN [m \in DOMAIN schedule |-> reconcile_month(schedule[m], n)]
    ELSE schedule

\* initialize_schedule, lines 1516-1564, for num_stations = n
initialize_schedule_for(schedule, n) ==
    IF schedule = << >>
    THEN [m \in 1..MonthsPerYear |-> ScheduleMonth(1..n, 0)]
    ELSE reconcile_schedule(schedule, n)

\* the coordinator is constructed for some station count; nothing is stored yet
InitSched ==
    /\ coord \in [schedule : {<< >>}, num_stations : 1..MaxStationCount]
    /\ storage = [schedule |-> << >>]
    /\ initPc = "load"
    /\ obs = [last |-> "init"]
    /\ now = StartDay * Day
    /\ cfg = CalcConfig(0, FALSE)
    /\ env = [budget |-> 0]
    /\ callbacks = {}
    /\ switches = [s \in Stations |-> FALSE]
    /\ off_now = {}
    /\ sessions = [k \in SessionSlots |-> IdleSession]
    /\ stops = [j \in StopSlots |-> IdleStop]
    /\ timers = {}

SchedUnchanged ==
    UNCHANGED <<now, cfg, switches, off_now, sessions, stops, timers, callbacks, env>>

\* load_persistent_data, line 377
LoadSchedule ==
    /\ initPc = "load"
    /\ initPc' = "schedule"
    /\ coord' = [coord EXCEPT !.schedule = storage.schedule]
    /\ obs' = [last |-> "loaded"]
    /\ UNCHANGED storage
    /\ SchedUnchanged

\* async_init: initialize_schedule, which saves what it created or reconciled
InitializeSchedule ==
    /\ initPc = "schedule"
    /\ initPc' = "run"
    /\ coord' = [coord EXCEPT !.schedule = initialize_schedule_for(@, coord.num_stations)]
    /\ storage' = [schedule |-> coord'.schedule]
    /\ obs' = [last |-> "initialized"]
    /\ SchedUnchanged

\* async_set_schedule, lines 1501-1513
SetSchedule(new_schedule) ==
    /\ initPc = "run"
    /\ coord' = [coord EXCEPT !.schedule = new_schedule]
    /\ storage' = [schedule |-> new_schedule]
    /\ obs' = [last |-> "set_schedule"]
    /\ UNCHANGED initPc
    /\ SchedUnchanged

\* update_config, lines 239-306, with a new num_stations
UpdateConfig(n) ==
    /\ initPc = "run"
    /\ coord' = [schedule |-> initialize_schedule_for(coord.schedule, n),
                 num_stations |-> n]
    /\ storage' = [schedule |-> coord'.schedule]
    /\ obs' = [last |-> "update_config"]
    /\ UNCHANGED initPc
    /\ SchedUnchanged

\* the config entry is reloaded: a new coordinator, for a station count n
ReloadEntry(n) ==
    /\ initPc = "run"
    /\ initPc' = "load"
    /\ coord' = [schedule |-> << >>, num_stations |-> n]
    /\ obs' = [last |-> "reload"]
    /\ UNCHANGED storage
    /\ SchedUnchanged

SchedNext ==
    \/ LoadSchedule
    \/ InitializeSchedule
    \/ \E new_schedule \in SentSchedules : SetSchedule(new_schedule)
    \/ \E n \in 1..MaxStationCount : UpdateConfig(n)
    \/ \E n \in 1..MaxStationCount : ReloadEntry(n)

SchedSpec == InitSched /\ [][SchedNext]_vars

\* C17: once initialization is over the schedule has 12 months, and the
\* stations of every month are exactly the stations 1..num_stations
ScheduleWellFormed ==
    initPc = "run" =>
        /\ Len(coord.schedule) = 12
        /\ \A m \in 1..Len(coord.schedule) :
              DOMAIN coord.schedule[m].stations = 1..coord.num_stations

\* C18: with a soil moisture sensor configured, a watering cycle that reads a
\* number at or above the threshold starts no session; with no state, the
\* states unknown and unavailable, a text that is no number, or a number below
\* the threshold the cycle goes on: it starts the session it would start
\* without a sensor
SoilGate ==
    (obs.last \in {"cycle", "cycle_skipped"} /\ cfg.soil_moisture_sensor) =>
        IF env.soil.kind = "number" /\ env.soil.value >= SoilThreshold
        THEN obs.last = "cycle_skipped" /\ NoSessionStarted
        ELSE /\ obs.last = "cycle"
             /\ (ThisMonth.stations[1] > 0 /\ RemainingToday > 0 /\ PerRunNum >= PerRunDen)
                   => \E k \in SessionSlots : sessions[k].pc = "call"

\* C18: the sensor read exactly the threshold and the cycle, which had water to
\* give, started nothing
SoilGateAtThreshold ==
    /\ obs.last = "cycle_skipped" /\ cfg.soil_moisture_sensor
    /\ env.soil = [kind |-> "number", value |-> SoilThreshold]
    /\ ThisMonth.stations[1] > 0 /\ RemainingToday > 0
    /\ NoSessionStarted

\* the pc of a start_irrigation coroutine that is inside its wait loop
InWaitLoop(k) == sessions[k].pc = "sleep"

\* C19: a watering-cycle callback does not enter start_irrigation for a station
\* on which an earlier start_irrigation is still inside its wait loop
NoOverlappingCycleSession ==
    [][\A k \in SessionSlots :
          (/\ sessions[k].pc = "idle" /\ sessions'[k].pc # "idle"
           /\ sessions'[k].in_cycle)
             => ~\E j \in SessionSlots \ {k} :
                    /\ InWaitLoop(j)
                    /\ sessions[j].station = sessions'[k].station]_vars

\* C20: no step of the running coordinator (a loop iteration, a stop, the daily
\* reset, a replacement of the schedule, a poll, a callback) lowers
\* total_water_consumption; a restart of the process is no such step
ConsumptionMonotonic ==
    [][obs'.last # "restart"
         => coord'.total_water_consumption >= coord.total_water_consumption]_vars

\* C20: the daily reset has run and the water consumed before midnight is
\* still counted
ConsumptionKeptByReset ==
    obs.last \in {"reset", "reset_raised"} /\ coord.total_water_consumption > 0

\* no operation of the coordinator is under way: initialization is over and no
\* start_irrigation or stop_irrigation coroutine is in flight
Quiescent ==
    /\ initPc = "run"
    /\ \A k \in SessionSlots : sessions[k].pc = "idle"
    /\ \A j \in StopSlots : stops[j].pc = "idle"

\* C21: whenever the operations of the coordinator have completed, the stored
\* snapshot holds the in-memory values of all persisted fields (accumulators,
\* targets, last_* timestamps, schedule, active irrigation session)
SnapshotFollowsMemory == Quiescent => storage = Snapshot(coord)

\* ------------------------------------------------------------------------
\* Schedule arming as a calculation: check_and_schedule_watering at some time
\* of a day, with some schedule, last events and amounts
\* ------------------------------------------------------------------------
\* the lists of hours: none; a time with seconds, an hour out of range, an
\* empty string and a later time; the same time written twice
ArmHours ==
    {<< >>,
     << <<6, 0, 30>>, <<25, 0>>, << >>, <<20, 30>> >>,
     << <<6>>, <<6, 0>> >>}
ArmTimes ==
    {HourTime(<<0, 1>>), HourTime(<<6, 0>>), HourTime(<<6, 0, 30>>), HourTime(<<6, 1>>),
     HourTime(<<20, 30>>)}
LaterInterval == 3     \* interval_days of the months after the current one

\* a schedule whose current month has the hours `hours` and whose month two
\* months later has the hours `later`
ArmSchedule(t, hours, later) ==
    [m \in 1..12 |->
        [interval_days |-> IF m = MonthIndex(DateOf(t)) + 1 THEN IntervalDays
                           ELSE LaterInterval,
         stations |-> [s \in Stations |-> IF s = 1 THEN ScheduledMinutes ELSE 0],
         hours |-> IF m = MonthIndex(DateOf(t)) + 1 THEN hours
                   ELSE IF m = ((MonthIndex(DateOf(t)) + 2) % 12) + 1 THEN later
                   ELSE << >>]]

InitArm ==
    /\ now \in {(StartDay + 1) * Day + tod : tod \in ArmTimes}
    /\ cfg = CalcConfig(StationArea, FALSE)
    /\ coord \in {[CalcCoordinator(now, 0, << >>, ago, target, applied, forecast)
                      EXCEPT !.schedule = ArmSchedule(now, hours, later)] :
                    hours \in ArmHours, later \in {<< >>, << <<20, 30>> >>},
                    ago \in CalcAgo, target \in CalcTargets, applied \in CalcApplied,
                    forecast \in CalcForecasts}
    /\ callbacks = {[kind |-> "check", at |-> now, id |-> 0, entry |-> 0]}
    /\ storage = NoData
    /\ switches = [s \in Stations |-> FALSE]
    /\ off_now = {}
    /\ sessions = [k \in SessionSlots |-> IdleSession]
    /\ stops = [j \in StopSlots |-> IdleStop]
    /\ timers = {}
    /\ initPc = "run"
    /\ env = [starts |-> 0, stop_calls |-> 0, restarts |-> 0, polls |-> 0,
              budget |-> 0, horizon |-> 0, soil |-> NoReading]
    /\ obs = [last |-> "init", obligations |-> {}, missed_stop |-> FALSE,
              restored |-> NoSession, armings |-> 0, resets |-> NoResets,
              stop_offs |-> {}]

ArmNext == \E cb \in callbacks : FireCheck(cb)

ArmSpec == InitArm /\ [][ArmNext]_vars

\* the watering-cycle callbacks that are armed
CyclesArmed == {cb \in callbacks : cb.kind = "cycle"}
\* the months with hours, counted from the current one, and the hours and the
\* interval of the first of them
MonthsAhead ==
    {i \in 0..11 : coord.schedule[((MonthIndex(DateOf(now)) + i) % 12) + 1].hours # << >>}
MonthFound ==
    coord.schedule[((MonthIndex(DateOf(now))
                      + (CHOOSE i \in MonthsAhead : \A j \in MonthsAhead : i <= j)) % 12) + 1]
\* the hour strings that are times of day
HoursWellFormed == {<<6>>, <<6, 0>>, <<6, 0, 30>>, <<20, 30>>}
\* the more recent of last_rain and last_sprinkle is fewer than interval_days
\* days before today
TooSoon ==
    \/ DateOf(now) - DateOf(coord.last_rain) < MonthFound.interval_days
    \/ DateOf(now) - DateOf(coord.last_sprinkle) < MonthFound.interval_days
NothingToGive ==
    \A s \in Stations :
        coord.sprinkle_target_amount_today[s]
          - (coord.sprinkle_total_amount_today[s] + coord.rain_total_amount_forecasted_today) <= 0

\* C22: check_and_schedule_watering arms no watering cycle when no month has
\* hours, when the last rain or watering is fewer than interval_days days back
\* or when no station has anything left to give; otherwise it arms exactly one
\* callback for every entry of the hours that is a time of day strictly later
\* than now, at that time of today, and none for any other entry
ArmsEachLaterHour ==
    obs.last = "armed" =>
        IF MonthsAhead = {} \/ TooSoon \/ NothingToGive THEN CyclesArmed = {}
        ELSE /\ \A cb \in CyclesArmed : cb.entry \in 1..Len(MonthFound.hours)
             /\ \A n \in 1..Len(MonthFound.hours) :
                   LET h == MonthFound.hours[n]
                       armed == {cb \in CyclesArmed : cb.entry = n}
                   IN  IF h \in HoursWellFormed /\ HourTime(h) > TimeOf(now)
                       THEN /\ Cardinality(armed) = 1
                            /\ \A cb \in armed : cb.at = DateOf(now) * Day + HourTime(h)
                       ELSE armed = {}

\* C22: at 06:00:30, with the hours 06:00:30, 25:00, an empty string and 20:30,
\* the one callback armed is that of 20:30
ArmedPastInvalidHour ==
    /\ obs.last = "armed" /\ TimeOf(now) = HourTime(<<6, 0, 30>>)
    /\ MonthsAhead # {}
    /\ MonthFound.hours = << <<6, 0, 30>>, <<25, 0>>, << >>, <<20, 30>> >>
    /\ Cardinality(CyclesArmed) = 1
    /\ \E cb \in CyclesArmed : cb.entry = 4 /\ TimeOf(cb.at) = HourTime(<<20, 30>>)

\* ------------------------------------------------------------------------
\* A session from its start to its end
\* ------------------------------------------------------------------------
\* session k is between the success of its strategy call and the end of its loop
InSession(k) == sessions[k].pc \in {"save_active", "poll_start", "sleep"}

\* C23: a session whose strategy call succeeded and that no stop signal and no
\* restart of the process ends leaves its loop after duration * 60 iterations
\* with the station Stopped; every iteration adds flow / 60 litres to
\* total_water_consumption and flow / area / 60 mm (area 1 when zero) to the
\* station's applied amount; the switch strategy then commands the output off
\* and drops the session record, and last_sprinkle is the time of the end
SessionRunsToItsEnd ==
    [][\A k \in SessionSlots :
          LET s == sessions[k].station
          IN  /\ (/\ InSession(k) /\ ~InSession(k)'
                  /\ obs'.last # "restart"
                  /\ ~coord'.irrigation_stop_event)
                    => /\ sessions'[k].i = sessions[k].duration * SecondsPerMinute
                       /\ coord'.stations[s] = "Stopped"
              /\ (sessions[k].pc = "sleep" /\ sessions'[k].i = sessions[k].i + 1)
                    => /\ coord'.total_water_consumption
                            = coord.total_water_consumption + coord.water_flow_rate[s]
                       /\ coord'.sprinkle_total_amount_today[s]
                            = coord.sprinkle_total_amount_today[s]
                                + (coord.water_flow_rate[s] * MmScale)
                                    \div ((IF cfg.station_areas[s] = 0 THEN 1
                                           ELSE cfg.station_areas[s]) * SecondsPerMinute)
              /\ (sessions[k].pc = "turn_off" /\ sessions'[k].pc # "turn_off"
                  /\ obs'.last # "restart")
                    => s \in off_now' /\ coord'.active_irrigation = NoSession
              /\ (sessions[k].pc \in {"turn_off", "save_end"}
                  /\ sessions'[k].pc = "poll_end")
                    => coord'.last_sprinkle = now
    ]_vars

\* ------------------------------------------------------------------------
\* The polls of two days, around 00:05
\* ------------------------------------------------------------------------
MaxPolled == 3
PolledTimes ==
    {HourTime(<<0, 4>>), HourTime(<<0, 5>>), HourTime(<<0, 5>>) + 1, HourTime(<<12, 0>>)}
PolledInstants == {d * Day + tod : d \in {StartDay + 1, StartDay + 2}, tod \in PolledTimes}

InitPolled ==
    /\ now \in {t \in PolledInstants : DateOf(t) = StartDay + 1}
    /\ cfg \in {Config("service", 0, wx) : wx \in BOOLEAN}
    /\ coord \in {[CalcCoordinator(now, ScheduledMinutes, << <<20, 30>> >>, MaxLastAgo,
                                   0, applied, 0)
                      EXCEPT !.last_reset = last_reset,
                             !.rain_total_amount_today = rain] :
                    last_reset \in {0, (DateOf(now) - 1) * Day + HourTime(<<12, 0>>),
                                    DateOf(now) * Day, DateOf(now) * Day + HourTime(<<0, 1>>)},
                    applied \in {0, 1200}, rain \in {0, 5}}
    /\ callbacks = {}
    /\ storage = NoData
    /\ switches = [s \in Stations |-> FALSE]
    /\ off_now = {}
    /\ sessions = [k \in SessionSlots |-> IdleSession]
    /\ stops = [j \in StopSlots |-> IdleStop]
    /\ timers = {}
    /\ initPc = "run"
    /\ env = [starts |-> 0, stop_calls |-> 0, restarts |-> 0, polls |-> 0,
              budget |-> 2, horizon |-> 0, soil |-> NoReading]
    /\ obs = [last |-> "init", obligations |-> {}, missed_stop |-> FALSE,
              restored |-> NoSession, armings |-> 0, resets |-> NoResets,
              stop_offs |-> {}]

\* a poll at the present instant
PollOnce(x) ==
    /\ env.polls < MaxPolled
    /\ env' = [Spend(x) EXCEPT !.polls = @ + 1]
    /\ Commit(async_update_all_sensors(World, cfg, now, x).w, "polled", {}, FALSE)
    /\ UNCHANGED <<now, cfg, sessions, stops, timers, callbacks, initPc>>

\* time passes to a later instant
PollLater(t) ==
    /\ t > now
    /\ now' = t
    /\ SetWorld(World)
    /\ obs' = [obs EXCEPT !.last = "tick"]
    /\ UNCHANGED <<cfg, sessions, stops, timers, callbacks, initPc, env>>

PolledNext ==
    \/ \E x \in Answers(env.budget) : PollOnce(x)
    \/ \E t \in PolledInstants : PollLater(t)

PollSpec == InitPolled /\ [][PolledNext]_vars

\* C24: a poll calls the daily reset exactly when the time of day is after
\* 00:05:00 and the date of last_reset is not today; after the call the date of
\* last_reset is today, and the polls of one day call it at most once
PolledResetOncePerDay ==
    [][obs'.last = "polled" =>
          /\ ResetCalled <=> (/\ TimeOf(now) > HourTime(<<0, 5>>)
                              /\ DateOf(coord.last_reset) # DateOf(now))
          /\ ResetCalled => DateOf(coord'.last_reset) = DateOf(now)
          /\ obs'.resets.calls <= 1
    ]_vars

\* ------------------------------------------------------------------------
\* The daily reset with a provider: one call of reset_rain_sprinkle_indicators
\* on a coordinator that has rained on, watered and is watering
\* ------------------------------------------------------------------------
ResetForecasts == {0, 19, 1199, 3000}
ResetConsumed == {0, 600}       \* total_water_consumption, in 1/60 litre

InitReset ==
    /\ now \in {(StartDay + 1) * Day, (StartDay + 1) * Day + HourTime(<<0, 6>>)}
    /\ cfg \in {[CalcConfig(area, FALSE) EXCEPT !.weather = wx] :
                  area \in CalcAreas, wx \in BOOLEAN}
    /\ coord \in {[CalcCoordinator(now, minutes, hours, ago, 2400, applied, 19)
                      EXCEPT !.has_rained_today = TRUE,
                             !.will_it_rain_today = TRUE,
                             !.rain_time_today = 3,
                             !.rain_total_amount_today = 5,
                             !.total_water_consumption = consumed,
                             !.stations = [s \in Stations |->
                                             IF s = 1 THEN "Sprinkling" ELSE "Stopped"],
                             !.active_irrigation =
                                 [station |-> 1, start_at |-> now - Minute,
                                  end_at |-> now + Minute, duration_minutes |-> 2]] :
                    minutes \in CalcMinutes, hours \in CalcHours, ago \in CalcAgo,
                    applied \in CalcApplied, consumed \in ResetConsumed}
    /\ callbacks = {[kind |-> "reset", at |-> now, id |-> 0, entry |-> 0]}
    /\ storage = NoData
    /\ switches = [s \in Stations |-> FALSE]
    /\ off_now = {}
    /\ sessions = [k \in SessionSlots |-> IdleSession]
    /\ stops = [j \in StopSlots |-> IdleStop]
    /\ timers = {}
    /\ initPc = "run"
    /\ env \in {[starts |-> 0, stop_calls |-> 0, restarts |-> 0, polls |-> 0,
                 budget |-> 1, horizon |-> 0, soil |-> NoReading,
                 answer |-> [NoWeather EXCEPT !.wx_ok = ok, !.forecast = forecast]] :
                  ok \in BOOLEAN, forecast \in ResetForecasts}
    /\ obs = [last |-> "init", obligations |-> {}, missed_stop |-> FALSE,
              restored |-> NoSession, armings |-> 0, resets |-> NoResets,
              stop_offs |-> {}]

ResetNext == \E cb \in callbacks : FireReset(cb, env.answer)

ResetSpec == InitReset /\ [][ResetNext]_vars

\* C25: a call of the daily reset zeroes the rain of today, the time it rained
\* and every station's applied amount, clears has_rained_today and
\* will_it_rain_today, and leaves the water consumed, last_rain, last_sprinkle,
\* the schedule, the stations' states and the session record as they were; a
\* call that runs to its end sets the forecast rain to the provider's answer
\* (0 without a provider) and every station's amount still to sprinkle to
\* max(0, target - forecast rain)
ResetFrame ==
    [][obs'.last \in {"reset", "reset_raised"} =>
          /\ coord'.rain_total_amount_today = 0
          /\ coord'.rain_time_today = 0
          /\ ~coord'.has_rained_today /\ ~coord'.will_it_rain_today
          /\ \A s \in Stations : coord'.sprinkle_total_amount_today[s] = 0
          /\ coord'.total_water_consumption = coord.total_water_consumption
          /\ coord'.last_rain = coord.last_rain
          /\ coord'.last_sprinkle = coord.last_sprinkle
          /\ coord'.schedule = coord.schedule
          /\ coord'.stations = coord.stations
          /\ coord'.active_irrigation = coord.active_irrigation
          /\ obs'.last = "reset" =>
               /\ coord'.rain_total_amount_forecasted_today
                    = IF cfg.weather THEN env.answer.forecast ELSE 0
               /\ \A s \in Stations :
                     coord'.forecasted_sprinkle_today[s]
                       = IF coord'.sprinkle_target_amount_today[s]
                              > coord'.rain_total_amount_forecasted_today
                         THEN coord'.sprinkle_target_amount_today[s]
                                - coord'.rain_total_amount_forecasted_today
                         ELSE 0
    ]_vars

\* C25: a reset with a provider that forecasts 11.99 mm has left station 1 an
\* amount to sprinkle and station 2 none, the water consumed as it was
ResetWithForecast ==
    /\ obs.last = "reset" /\ cfg.weather
    /\ coord.rain_total_amount_forecasted_today = 1199
    /\ coord.forecasted_sprinkle_today[1] > 0
    /\ coord.forecasted_sprinkle_today[2] = 0
    /\ coord.total_water_consumption = 600
    /\ coord.stations[1] = "Sprinkling"

\* ------------------------------------------------------------------------
\* The weather providers: will_it_rain
\* ------------------------------------------------------------------------
\* the blocks the API answers with: those of today that start at these hours,
\* each with a pop of 0.50 or 0.51 (in hundredths), and for OpenWeatherMap the
\* 00:00 block of tomorrow
PopHours == <<0, 12, 18, 21>>
Pops == {50, 51}
PopTimes ==
    {HourTime(<<0, 30>>), HourTime(<<2, 59>>), HourTime(<<12, 0>>), HourTime(<<14, 59>>),
     HourTime(<<20, 59>>), HourTime(<<21, 0>>), HourTime(<<23, 59>>)}

PopBlocks(today, pops) ==
    [n \in 1..Len(PopHours) |-> [date |-> today, hour |-> PopHours[n], pop |-> pops[n]]]

\* owm.py: block_hours = range(0, 21, 3); the greatest that is <= now.hour
owm_current_block(t) ==
    LET current_hour == TimeOf(t) \div (60 * Minute)
    IN  CHOOSE h \in {0, 3, 6, 9, 12, 15, 18} :
            /\ h <= current_hour
            /\ \A h2 \in {0, 3, 6, 9, 12, 15, 18} : h2 <= current_hour => h2 <= h

\* owm.py will_it_rain: the blocks of today from current_block on, any pop > 0.50
owm_will_it_rain(forecast, t) ==
    \E n \in 1..Len(forecast) :
        /\ forecast[n].date = DateOf(t)
        /\ forecast[n].hour >= owm_current_block(t)
        /\ forecast[n].pop > 50

\* pirateweather.py: block_starts = [0, 3, ..., 21]; the greatest that is <= now.hour
pirateweather_current_block(t) ==
    LET current_hour == TimeOf(t) \div (60 * Minute)
    IN  CHOOSE h \in {0, 3, 6, 9, 12, 15, 18, 21} :
            /\ h <= current_hour
            /\ \A h2 \in {0, 3, 6, 9, 12, 15, 18, 21} : h2 <= current_hour => h2 <= h

\* pirateweather.py get_forecast, lines 189-207: the blocks of today from the
\* current block on, and the 00:00 block whatever the time
pirateweather_get_forecast(blocks, t) ==
    SelectSeq(blocks,
              LAMBDA b : /\ b.date = DateOf(t)
                         /\ \/ b.hour >= pirateweather_current_block(t)
                            \/ b.hour = 0)

\* pirateweather.py will_it_rain: any pop > 0.50 in what get_forecast returns
pirateweather_will_it_rain(blocks, t) ==
    \E n \in 1..Len(pirateweather_get_forecast(blocks, t)) :
        pirateweather_get_forecast(blocks, t)[n].pop > 50

InitWillRain ==
    /\ now \in {(StartDay + 1) * Day + tod : tod \in PopTimes}
    /\ env \in {[provider |-> provider,
                 forecast |-> PopBlocks(DateOf(now), pops) \o next] :
                  provider \in {"owm", "pirateweather"},
                  pops \in [1..Len(PopHours) -> Pops],
                  next \in {<< >>} \cup
                           {<<[date |-> DateOf(now) + 1, hour |-> 0, pop |-> p]>> : p \in Pops}}
    /\ obs = [last |-> "init", will_rain |-> FALSE]
    /\ cfg = CalcConfig(0, FALSE)
    /\ coord = CalcCoordinator(now, 0, << >>, 1, 0, 0, 0)
    /\ callbacks = {}
    /\ storage = NoData
    /\ switches = [s \in Stations |-> FALSE]
    /\ off_now = {}
    /\ sessions = [k \in SessionSlots |-> IdleSession]
    /\ stops = [j \in StopSlots |-> IdleStop]
    /\ timers = {}
    /\ initPc = "run"

OwmWillRain ==
    /\ env.provider = "owm" /\ obs.last = "init"
    /\ obs' = [last |-> "asked", will_rain |-> owm_will_it_rain(env.forecast, now)]
    /\ UNCHANGED <<now, cfg, coord, storage, switches, off_now, sessions, stops,
                   timers, callbacks, initPc, env>>

PirateWeatherWillRain ==
    /\ env.provider = "pirateweather" /\ obs.last = "init"
    /\ obs' = [last |-> "asked",
               will_rain |-> pirateweather_will_it_rain(env.forecast, now)]
    /\ UNCHANGED <<now, cfg, coord, storage, switches, off_now, sessions, stops,
                   timers, callbacks, initPc, env>>

WillRainNext == OwmWillRain \/ PirateWeatherWillRain

WillRainSpec == InitWillRain /\ [][WillRainNext]_vars

\* the start, in hours, of the 3-hour block the present time is in
BlockOfNow == ((TimeOf(now) \div (60 * Minute)) \div 3) * 3

\* C26: will_it_rain of either provider answers true exactly when a block of
\* the forecast that is of today and has not ended before the 3-hour block in
\* progress has a pop above 0.50
WillRainFromBlocksAhead ==
    obs.last = "asked" =>
        (obs.will_rain <=>
            \E n \in 1..Len(env.forecast) :
                /\ env.forecast[n].date = DateOf(now)
                /\ env.forecast[n].hour >= BlockOfNow
                /\ env.forecast[n].pop > 50)

\* ------------------------------------------------------------------------
\* get_next_watering_date as a calculation
\* ------------------------------------------------------------------------
NoDate == [kind |-> "none", at |-> 0]
DateRaised == [kind |-> "raised", at |-> 0]

\* while not self.schedule[next_watering_day.month - 1].get("hours"): += 1 day
NextDayWithHours(schedule, day) ==
    SetMin({d \in day..(day + 12 * DaysPerMonth) :
               schedule[MonthIndex(d) + 1].hours # << >>})

\* lines 755-821; a ValueError of the fallback's parse_time_string is not caught
get_next_watering_date(c, t) ==
    IF c.schedule = << >> THEN NoDate
    ELSE LET m == FirstMonthWithHours(c.schedule, MonthIndex(DateOf(t)))
         IN  IF m = 0 THEN NoDate
             ELSE LET month_config == c.schedule[m]
                      watering_hours == month_config.hours
                      interval_days == month_config.interval_days
                      after_rain ==
                          IF c.has_rained_today \/ c.will_it_rain_today \/ c.is_raining_now
                          THEN DateOf(t) + interval_days ELSE DateOf(t)
                      after_event ==
                          IF IntervalGateBlocks(c, month_config, t)
                          THEN DateOf(LastEvent(c)) + interval_days ELSE after_rain
                      next_watering_day == NextDayWithHours(c.schedule, after_event)
                      later == {n \in 1..Len(watering_hours) :
                                   /\ ValidHour(watering_hours[n])
                                   /\ next_watering_day * Day + HourTime(watering_hours[n]) > t}
                  IN  IF later # {}
                      THEN [kind |-> "time",
                            at |-> next_watering_day * Day
                                     + HourTime(watering_hours[SetMin(later)])]
                      ELSE IF ~ValidHour(watering_hours[1]) THEN DateRaised
                      ELSE [kind |-> "time",
                            at |-> (next_watering_day + 1) * Day
                                     + HourTime(watering_hours[1])]

\* the lists of hours: none; in order; out of order; an empty string first
NextHours ==
    {<< >>,
     << <<6, 0>>, <<20, 30>> >>,
     << <<20, 30>>, <<6, 0>> >>,
     << << >>, <<6, 0>> >>}
NextTimes == {HourTime(<<5, 0>>), HourTime(<<6, 0>>), HourTime(<<7, 0>>), HourTime(<<21, 0>>)}

InitNextDate ==
    /\ now \in {(StartDay + 1) * Day + tod : tod \in NextTimes}
    /\ cfg = CalcConfig(StationArea, FALSE)
    /\ coord \in {[CalcCoordinator(now, 0, << >>, ago, 2400, 0, 0)
                      EXCEPT !.schedule = ArmSchedule(now, hours, later),
                             !.has_rained_today = rained,
                             !.last_sprinkle = (DateOf(now) - sprinkled) * Day + Day \div 2] :
                    hours \in NextHours, later \in {<< >>, << <<20, 30>> >>},
                    ago \in CalcAgo, sprinkled \in CalcAgo, rained \in BOOLEAN}
    /\ callbacks = {}
    /\ storage = NoData
    /\ switches = [s \in Stations |-> FALSE]
    /\ off_now = {}
    /\ sessions = [k \in SessionSlots |-> IdleSession]
    /\ stops = [j \in StopSlots |-> IdleStop]
    /\ timers = {}
    /\ initPc = "run"
    /\ env = [budget |-> 0]
    /\ obs = [last |-> "init", next |-> NoDate]

GetNextWateringDate ==
    /\ obs.last = "init"
    /\ obs' = [last |-> "asked", next |-> get_next_watering_date(coord, now)]
    /\ UNCHANGED <<now, cfg, coord, storage, switches, off_now, sessions, stops,
                   timers, callbacks, initPc, env>>

NextDateNext == GetNextWateringDate

NextDateSpec == InitNextDate /\ [][NextDateNext]_vars

\* the candidate day: today, or interval_days days from today when it has
\* rained, rains or will rain, or interval_days days after the last event when
\* that is fewer than interval_days days back; then the first day from there
\* on whose month has hours
CandidateDay ==
    LET from == IF TooSoon THEN DateOf(LastEvent(coord)) + MonthFound.interval_days
                ELSE IF coord.has_rained_today \/ coord.will_it_rain_today
                        \/ coord.is_raining_now
                     THEN DateOf(now) + MonthFound.interval_days
                ELSE DateOf(now)
    IN  CHOOSE d \in from..(from + 12 * DaysPerMonth) :
            /\ coord.schedule[MonthIndex(d) + 1].hours # << >>
            /\ \A e \in from..(d - 1) : coord.schedule[MonthIndex(e) + 1].hours = << >>
\* the configured hours of the month found that are times of day, as instants
\* of the candidate day after now
HoursAhead ==
    {CandidateDay * Day + HourTime(MonthFound.hours[n]) :
        n \in {n \in 1..Len(MonthFound.hours) :
                  /\ MonthFound.hours[n] \in HoursWellFormed
                  /\ CandidateDay * Day + HourTime(MonthFound.hours[n]) > now}}

\* C27: with no month with hours get_next_watering_date returns nothing;
\* otherwise it returns a time after now: the earliest configured hour of the
\* candidate day that is after now, or else the first configured hour of the
\* day after the candidate day; the candidate day is not before the last event
\* plus interval_days when that event is fewer than interval_days days back
NextDateIsEarliestAhead ==
    obs.last = "asked" =>
        IF MonthsAhead = {} THEN obs.next = NoDate
        ELSE /\ obs.next.kind = "time"
             /\ obs.next.at > now
             /\ TooSoon => DateOf(obs.next.at)
                             >= DateOf(LastEvent(coord)) + MonthFound.interval_days
             /\ IF HoursAhead # {}
                THEN \A at \in HoursAhead : obs.next.at <= at
                ELSE /\ DateOf(obs.next.at) = CandidateDay + 1
                     /\ \E n \in 1..Len(MonthFound.hours) :
                           /\ MonthFound.hours[n] \in HoursWellFormed
                           /\ TimeOf(obs.next.at) = HourTime(MonthFound.hours[n])
                           /\ \A n2 \in 1..(n - 1) :
                                 MonthFound.hours[n2] \notin HoursWellFormed

\* C28: a call of initialize_schedule that finds a schedule whose station keys
\* are not those of stations 1..num_stations leaves 12 months, each with
\* exactly the keys of stations 1..num_stations, the minutes of the stations
\* that were there, 0 minutes for those added, and the interval_days and hours
\* it had; a call that finds no schedule creates 12 months with interval_days
\* 0, no hours and 0 minutes for each of the stations
ReconciledOnCountChange ==
    [][obs'.last \in {"initialized", "update_config"} =>
          LET found == coord.schedule
              made == coord'.schedule
              n == coord'.num_stations
          IN  IF found = << >>
              THEN made = [m \in 1..12 |->
                             [interval_days |-> 0, hours |-> << >>,
                              stations |-> [k \in 1..n |-> 0]]]
              ELSE (\E m \in 1..Len(found) : DOMAIN found[m].stations # 1..n)
                     => /\ Len(made) = 12
                        /\ \A m \in 1..Len(made) :
                              /\ DOMAIN made[m].stations = 1..n
                              /\ \A k \in 1..n :
                                    made[m].stations[k]
                                      = IF k \in DOMAIN found[m].stations
                                        THEN found[m].stations[k] ELSE 0
                              /\ made[m].interval_days = found[m].interval_days
                              /\ made[m].hours = found[m].hours
    ]_vars

\* ------------------------------------------------------------------------
\* load_persistent_data on a snapshot that something else wrote
\* ------------------------------------------------------------------------
\* what a key of the stored JSON can hold: nothing, a list, a string, a number
Missing == [kind |-> "none"]
StoredArrays ==
    {Missing, [kind |-> "str", text |-> "x"]}
      \cup {[kind |-> "list", items |-> [k \in 1..len |-> 7]] : len \in 1..(NumStations + 1)}
\* a string in the fixed format stands for the instant it names
StoredTimestamps ==
    {Missing,
     [kind |-> "str", text |-> "2024-05-01T10:00:00"],
     [kind |-> "time", at |-> StartTime - Day],
     [kind |-> "number", value |-> 0],
     [kind |-> "number", value |-> 1714557600]}

\* a datetime: its instant and whether it carries a timezone
Datetime(t, aware) == [kind |-> "datetime", at |-> t, aware |-> aware]

\* lines 362-365 and the like: a list of num_stations entries is kept
load_array(value, n, default) ==
    IF value.kind = "list" /\ Len(value.items) = n
    THEN value.items ELSE [k \in 1..n |-> default]

\* lines 383-391 and the like: a string is parsed (naive) or replaced by now;
\* anything else is kept when truthy and replaced by now when not
load_timestamp(value, t) ==
    IF value.kind = "time" THEN Datetime(value.at, FALSE)
    ELSE IF value.kind = "str" THEN Datetime(t, TRUE)
    ELSE IF value.kind = "number" /\ value.value # 0 THEN value
    ELSE Datetime(t, TRUE)

\* util.ensure_aware raises AttributeError on a truthy value without tzinfo
ensure_aware_raises(d) == d.kind # "datetime"
ensure_aware(d) == IF d.aware THEN d ELSE Datetime(d.at, TRUE)

\* load_persistent_data, lines 346-419, on the keys in question
load_snapshot(data, n, t) ==
    LET last_reset == load_timestamp(data.last_reset, t)
        last_rain == load_timestamp(data.last_rain, t)
        last_sprinkle == load_timestamp(data.last_sprinkle, t)
    IN  IF \/ ensure_aware_raises(last_reset)
           \/ ensure_aware_raises(last_rain)
           \/ ensure_aware_raises(last_sprinkle)
        THEN [raised |-> TRUE]
        ELSE [raised |-> FALSE,
              sprinkle_total_amount_today
                  |-> load_array(data.sprinkle_total_amount_today, n, 0),
              sprinkle_target_amount_today
                  |-> load_array(data.sprinkle_target_amount_today, n, 0),
              forecasted_sprinkle_today
                  |-> load_array(data.forecasted_sprinkle_today, n, 0),
              water_flow_rate |-> load_array(data.water_flow_rate, n, DefaultFlowRate),
              last_reset |-> ensure_aware(last_reset),
              last_rain |-> ensure_aware(last_rain),
              last_sprinkle |-> ensure_aware(last_sprinkle)]

InitSnapshot ==
    /\ storage \in [sprinkle_total_amount_today : StoredArrays,
                    sprinkle_target_amount_today : {Missing, [kind |-> "list", items |-> <<7, 7>>]},
                    forecasted_sprinkle_today : {Missing, [kind |-> "list", items |-> <<7>>]},
                    water_flow_rate : StoredArrays,
                    last_reset : StoredTimestamps,
                    last_rain : StoredTimestamps,
                    last_sprinkle : StoredTimestamps]
    /\ coord = [raised |-> FALSE]
    /\ obs = [last |-> "init"]
    /\ now = StartTime
    /\ cfg = CalcConfig(0, FALSE)
    /\ env = [budget |-> 0]
    /\ callbacks = {}
    /\ switches = [s \in Stations |-> FALSE]
    /\ off_now = {}
    /\ sessions = [k \in SessionSlots |-> IdleSession]
    /\ stops = [j \in StopSlots |-> IdleStop]
    /\ timers = {}
    /\ initPc = "load"

LoadSnapshot ==
    /\ initPc = "load"
    /\ initPc' = "loaded"
    /\ coord' = load_snapshot(storage, NumStations, now)
    /\ obs' = [last |-> IF coord'.raised THEN "load_raised" ELSE "loaded"]
    /\ UNCHANGED <<now, cfg, storage, switches, off_now, sessions, stops, timers,
                   callbacks, env>>

SnapshotNext == LoadSnapshot

SnapshotSpec == InitSnapshot /\ [][SnapshotNext]_vars

\* the per-station arrays of the snapshot, and its timestamps
ArrayKeys == {"sprinkle_total_amount_today", "sprinkle_target_amount_today",
              "forecasted_sprinkle_today", "water_flow_rate"}
TimestampKeys == {"last_reset", "last_rain", "last_sprinkle"}

\* C29: the load of a malformed snapshot returns; an array that is not a list
\* of num_stations entries is then an array of num_stations defaults, a list of
\* num_stations entries is kept; a timestamp string that is not in the fixed
\* format is then the current time, and the three timestamps are aware
MalformedSnapshotRepaired ==
    initPc = "loaded" =>
        /\ ~coord.raised
        /\ \A key \in ArrayKeys :
              IF storage[key].kind = "list" /\ Len(storage[key].items) = NumStations
              THEN coord[key] = storage[key].items
              ELSE coord[key] = [k \in 1..NumStations |->
                                   IF key = "water_flow_rate" THEN DefaultFlowRate ELSE 0]
        /\ \A key \in TimestampKeys :
              /\ coord[key].kind = "datetime" /\ coord[key].aware
              /\ storage[key].kind = "str" => coord[key].at = now
              /\ storage[key].kind = "time" => coord[key].at = storage[key].at

\* ------------------------------------------------------------------------
\* The timers and the sessions they were armed for
\* ------------------------------------------------------------------------
\* the session record is that of the session the timer was armed for: the
\* station is the timer's and the record's end is the timer's expiry (a
\* restored record ends within the second after it)
TimerOwnsRecord(tm) ==
    /\ coord.active_irrigation.station = tm.station
    /\ coord.active_irrigation.end_at - tm.fire_at \in 0..(Second - 1)
\* a start_irrigation in flight is the one that armed the timer
TimerOwnsSession(tm) ==
    \E k \in SessionSlots :
        /\ sessions[k].pc # "idle"
        /\ sessions[k].station = tm.station
        /\ sessions[k].started_at + sessions[k].duration * Minute = tm.fire_at

\* C30: a timer that expires when the session it was armed for is over does
\* nothing: it does not call stop_irrigation, whatever session is running
TimerSparesLaterSession ==
    [][\A tm \in timers :
          (/\ tm \notin timers'
           /\ obs'.last \in {"timer_stop", "timer_nothing"}
           /\ ~TimerOwnsRecord(tm) /\ ~TimerOwnsSession(tm))
             => obs'.last = "timer_nothing"
    ]_vars

\* ------------------------------------------------------------------------
\* The session record while wait loops are in progress
\* ------------------------------------------------------------------------
\* the wait loop of slot k is in progress and no stop_irrigation has set the
\* stop signal since it was entered, nor is one in flight
LoopUndisturbed(k) ==
    /\ sessions[k].pc = "sleep"
    /\ ~sessions[k].stop_pending
    /\ ~coord.irrigation_stop_event
    /\ \A j \in StopSlots : stops[j].pc = "idle"

\* C31: under the switch strategy, while the wait loop of a session on station
\* s is in progress and stop_irrigation has not been called since it started,
\* the session record in memory and the one stored name station s
RecordNamesLoopStation ==
    _is_switch_control_method(cfg) =>
        \A k \in SessionSlots :
            LoopUndisturbed(k) =>
                /\ coord.active_irrigation.station = sessions[k].station
                /\ storage.active_irrigation.station = sessions[k].station

\* C32: under the switch strategy, when _async_restore_active_irrigation
\* drops a session record it found, it has issued an off command to the
\* record's station or armed a timer for it
RestoreNeverJustDrops ==
    [][(/\ initPc = "restore" /\ initPc' = "schedule"
        /\ _is_switch_control_method(cfg)
        /\ coord.active_irrigation # NoSession
        /\ HasSwitch(cfg, coord.active_irrigation.station)
        /\ coord'.active_irrigation = NoSession)
          => \/ coord.active_irrigation.station \in off_now'
             \/ \E tm \in timers' : tm.station = coord.active_irrigation.station
    ]_vars

\* C33: when the callback of a watering hour fires, no callback of another run
\* of check_and_schedule_watering is armed for the same instant, so that the
\* hour fires the watering cycle once on that day
HourFiresOnce ==
    [][\A cb \in callbacks :
          (/\ cb.kind = "cycle" /\ cb \notin callbacks'
           /\ obs'.last \in {"cycle", "cycle_skipped"})
             => \A other \in callbacks' :
                   ~(other.kind = "cycle" /\ other.at = cb.at /\ other.id # cb.id)
    ]_vars

\* ------------------------------------------------------------------------
\* A stop during a watering cycle over two stations
\* ------------------------------------------------------------------------
StopCycleHorizon == 9     \* minutes the clock runs on from 23:59:00
StopCycleBudget == 1      \* actions of the environment during the cycle
\* station 1 and station 2 both run at 00:06
TwoStationSchedule ==
    [m \in 1..12 |-> [interval_days |-> IntervalDays,
                      stations |-> [s \in Stations |-> ScheduledMinutes],
                      hours |-> << <<0, 6>> >>]]

\* 00:06 of a day whose reset gave both stations a target, the callback of
\* run_watering_cycle being due
InitStopCycle ==
    /\ now = (StartDay + 1) * Day + 6 * Minute
    /\ cfg \in {Config("switch", NumStations, FALSE), Config("service", 0, FALSE)}
    /\ coord \in {[Constructor(now) EXCEPT
                      !.schedule = TwoStationSchedule,
                      !.last_reset = DateOf(now) * Day,
                      !.last_rain = (DateOf(now) - ago) * Day + Day \div 2,
                      !.last_sprinkle = (DateOf(now) - ago) * Day + Day \div 2,
                      !.sprinkle_target_amount_today =
                          calculate_sprinkle_target_amounts(
                              [Constructor(now) EXCEPT
                                  !.schedule = TwoStationSchedule,
                                  !.last_rain = (DateOf(now) - ago) * Day + Day \div 2,
                                  !.last_sprinkle = (DateOf(now) - ago) * Day + Day \div 2],
                              cfg, now)] :
                    ago \in CalcAgo}
    /\ storage = Snapshot(coord)
    /\ callbacks = {[kind |-> "cycle", at |-> now, id |-> 1, entry |-> 1]}
    /\ switches = [s \in Stations |-> FALSE]
    /\ off_now = {}
    /\ sessions = [k \in SessionSlots |-> IdleSession]
    /\ stops = [j \in StopSlots |-> IdleStop]
    /\ timers = {}
    /\ initPc = "run"
    /\ env = [starts |-> 0, stop_calls |-> 0, restarts |-> 0, polls |-> 0,
              budget |-> StopCycleBudget, horizon |-> StopCycleHorizon,
              soil |-> NoReading]
    /\ obs = [last |-> "init", obligations |-> {}, missed_stop |-> FALSE,
              restored |-> NoSession, armings |-> 1, resets |-> NoResets,
              stop_offs |-> {}]

StopCycleNext ==
    \/ Tick
    \/ \E cb \in callbacks, k \in SessionSlots : FireCycle(cb, k)
    \/ \E k \in SessionSlots : ActionDone(k)
    \/ \E k \in SessionSlots : SaveActiveDone(k)
    \/ \E k \in SessionSlots : PollStartDone(k, NoWeather)
    \/ \E k \in SessionSlots : Wake(k)
    \/ \E k \in SessionSlots, ok \in BOOLEAN : TurnOffDone(k, ok)
    \/ \E k \in SessionSlots : SaveEndDone(k)
    \/ \E k \in SessionSlots : PollEndDone(k, NoWeather)
    \/ \E j \in StopSlots : StopIrrigation(j)
    \/ \E j \in StopSlots, failed \in SUBSET Stations : StopCallDone(j, failed)
    \/ \E j \in StopSlots : StopSaveDone(j)
    \/ \E j \in StopSlots : StopPollDone(j, NoWeather)
    \/ \E tm \in timers, j \in StopSlots : FireTimer(tm, j)

StopCycleSpec == InitStopCycle /\ [][StopCycleNext]_vars

\* C34: when start_irrigation returns to a watering cycle while the stop signal
\* that a successful stop_irrigation set is still set, the cycle enters
\* start_irrigation for no further station
StoppedCycleStartsNoStation ==
    [][\A k \in SessionSlots :
          (/\ sessions[k].in_cycle /\ sessions[k].pc = "poll_end"
           /\ coord.irrigation_stop_event
           /\ sessions'[k] # sessions[k])
             => /\ sessions'[k] = IdleSession
                /\ coord'.stations = [s \in Stations |-> "Stopped"]
    ]_vars

\* ------------------------------------------------------------------------
\* A poll that observes rain, with and without sprinkle_with_rain
\* ------------------------------------------------------------------------
RainyBudget == 2          \* answers other than the usual one per behaviour
\* it rains; the remote stop action succeeds or fails
Rainy == [NoWeather EXCEPT !.is_raining = TRUE, !.will_rain = TRUE]
RainAnswers == {NoWeather, Rainy, [Rainy EXCEPT !.svc_ok = FALSE],
                [NoWeather EXCEPT !.wx_ok = FALSE]}

\* start_irrigation(s, 1) asleep in its wait loop
Watering(s) ==
    [IdleSession EXCEPT !.pc = "sleep", !.station = s, !.duration = 1,
                        !.wake = now + Second, !.started_at = now]

\* a coordinator with a weather provider, the stations of `on` being watered
InitRainy ==
    /\ now = (StartDay + 1) * Day + HourTime(<<6, 0>>)
    /\ cfg \in {[Config(method, n, TRUE) EXCEPT !.sprinkle_with_rain = with_rain] :
                  method \in {"switch", "service"}, n \in {NumStations},
                  with_rain \in BOOLEAN}
    /\ \E on \in SUBSET Stations :
          /\ coord = [CalcCoordinator(now, ScheduledMinutes, << <<6, 0>> >>, MaxLastAgo,
                                      2400, 0, 0)
                         EXCEPT !.stations = [s \in Stations |->
                                                IF s \in on THEN "Sprinkling"
                                                ELSE "Stopped"],
                                !.active_irrigation =
                                    IF _is_switch_control_method(cfg) /\ on # {}
                                    THEN [station |-> SetMin(on), start_at |-> now,
                                          end_at |-> now + Minute, duration_minutes |-> 1]
                                    ELSE NoSession]
          /\ switches = [s \in Stations |-> _is_switch_control_method(cfg) /\ s \in on]
          /\ sessions = [k \in SessionSlots |-> IF k \in on THEN Watering(k)
                                                ELSE IdleSession]
    /\ storage = Snapshot(coord)
    /\ callbacks = {}
    /\ off_now = {}
    /\ stops = [j \in StopSlots |-> IdleStop]
    /\ timers = {}
    /\ initPc = "run"
    /\ env = [starts |-> 0, stop_calls |-> 0, restarts |-> 0, polls |-> 0,
              budget |-> RainyBudget, horizon |-> 0, soil |-> NoReading]
    /\ obs = [last |-> "init", obligations |-> {}, missed_stop |-> FALSE,
              restored |-> NoSession, armings |-> 0, resets |-> NoResets,
              stop_offs |-> {}]

RainyNext == \E x \in RainAnswers : env.budget > 0 /\ PollOnce(x)

RainySpec == InitRainy /\ [][RainyNext]_vars

Filled(n, v) == [i \in 1..n |-> v]

\* station_areas of the config entry, or the default when it is no list of
\* num_stations entries (lines 157-160, 278-281)
areas_for(n, areas) == IF Len(areas) # n THEN Filled(n, 0) ELSE areas

\* __init__, lines 156-232, for a config entry with num_stations = n
construct_sized(n, areas) ==
    [num_stations |-> n,
     station_areas |-> areas_for(n, areas),
     stations |-> Filled(n, "Stopped"),
     water_flow_rate |-> Filled(n, DefaultFlowRate),
     sprinkle_total_amount_today |-> Filled(n, 0),
     sprinkle_target_amount_today |-> Filled(n, 0),
     forecasted_sprinkle_today |-> Filled(n, 0)]

\* lines 362-386: a stored array that is no list of num_stations entries is
\* replaced by the default
sized_or_default(c, stored, v) ==
    IF Len(stored) # c.num_stations THEN Filled(c.num_stations, v) ELSE stored

load_sized(c, st) ==
    [c EXCEPT
        !.sprinkle_total_amount_today = sized_or_default(c, st.sprinkle_total_amount_today, 0),
        !.sprinkle_target_amount_today = sized_or_default(c, st.sprinkle_target_amount_today, 0),
        !.forecasted_sprinkle_today = sized_or_default(c, st.forecasted_sprinkle_today, 0),
        !.water_flow_rate = sized_or_default(c, st.water_flow_rate, DefaultFlowRate)]

\* update_config, lines 277-302: num_stations, station_areas and the station
\* objects are set anew; the poll it requests changes none of the arrays
update_config_sized(c, n, areas) ==
    [c EXCEPT !.num_stations = n,
              !.station_areas = areas_for(n, areas),
              !.stations = Filled(n, "Stopped")]

\* reset_rain_sprinkle_indicators, lines 652-660, the stations of `scheduled`
\* having minutes in the month's schedule: calculate_sprinkle_target_amounts
\* reads water_flow_rate of each of them and raises IndexError past its end
reset_sized(c, scheduled) ==
    LET c1 == [c EXCEPT !.sprinkle_total_amount_today = Filled(c.num_stations, 0)]
    IN  IF \E s \in scheduled : s <= c.num_stations /\ s > Len(c.water_flow_rate)
        THEN c1
        ELSE [c1 EXCEPT
                !.sprinkle_target_amount_today =
                    [s \in 1..c.num_stations |->
                        IF s \in scheduled
                        THEN c.water_flow_rate[s] * MmScale
                        ELSE 0],
                !.forecasted_sprinkle_today =
                    [s \in 1..c.num_stations |->
                        IF s \in scheduled
                        THEN c.water_flow_rate[s] * MmScale
                        ELSE 0]]

\* the arrays a snapshot can hold: of any length up to MaxStationCount
StoredArray(v) == {Filled(n, v) : n \in 0..MaxStationCount}

InitSized ==
    /\ cfg \in {[num_stations |-> n, station_areas |-> areas] :
                  n \in 1..MaxStationCount,
                  areas \in {<< >>, Filled(NumStations, StationArea)}}
    /\ coord = construct_sized(cfg.num_stations, cfg.station_areas)
    /\ storage \in [sprinkle_total_amount_today : StoredArray(0),
                    sprinkle_target_amount_today : StoredArray(0),
                    forecasted_sprinkle_today : {<< >>},
                    water_flow_rate : StoredArray(DefaultFlowRate)]
    /\ initPc = "load"
    /\ obs = [last |-> "init"]
    /\ now = StartDay * Day
    /\ env = [budget |-> 0]
    /\ callbacks = {}
    /\ switches = [s \in Stations |-> FALSE]
    /\ off_now = {}
    /\ sessions = [k \in SessionSlots |-> IdleSession]
    /\ stops = [j \in StopSlots |-> IdleStop]
    /\ timers = {}

SizedUnchanged ==
    UNCHANGED <<now, storage, switches, off_now, sessions, stops, timers, callbacks, env>>

\* async_init: load_persistent_data
LoadSized ==
    /\ initPc = "load"
    /\ initPc' = "run"
    /\ coord' = load_sized(coord, storage)
    /\ obs' = [last |-> "loaded"]
    /\ UNCHANGED cfg
    /\ SizedUnchanged

\* update_config with a config entry of n stations
UpdateConfigSized(n, areas) ==
    /\ initPc = "run"
    /\ cfg' = [num_stations |-> n, station_areas |-> areas]
    /\ coord' = update_config_sized(coord, n, areas)
    /\ obs' = [last |-> "update_config"]
    /\ UNCHANGED initPc
    /\ SizedUnchanged

\* the daily reset
ResetSized(scheduled) ==
    /\ initPc = "run"
    /\ coord' = reset_sized(coord, scheduled)
    /\ obs' = [last |-> "reset"]
    /\ UNCHANGED <<initPc, cfg>>
    /\ SizedUnchanged

SizedNext ==
    \/ LoadSized
    \/ \E n \in 1..MaxStationCount, areas \in {<< >>, Filled(NumStations, StationArea)} :
          UpdateConfigSized(n, areas)
    \/ \E scheduled \in SUBSET (1..MaxStationCount) : ResetSized(scheduled)

SizedSpec == InitSized /\ [][SizedNext]_vars

\* C36: once initialization is over, the station list, station_areas,
\* water_flow_rate, the applied, target and forecast amounts each have
\* num_stations entries
CollectionsSized ==
    initPc = "run" =>
        /\ Len(coord.stations) = coord.num_stations
        /\ Len(coord.station_areas) = coord.num_stations
        /\ Len(coord.water_flow_rate) = coord.num_stations
        /\ Len(coord.sprinkle_total_amount_today) = coord.num_stations
        /\ Len(coord.sprinkle_target_amount_today) = coord.num_stations
        /\ Len(coord.forecasted_sprinkle_today) = coord.num_stations

\* ------------------------------------------------------------------------
\* The station switches of the API object across update_config
\* ------------------------------------------------------------------------
\* update_config, lines 271-276: a new API object is constructed without
\* station_switch_entities, which api.__init__ (line 82) takes as no entities
api_after_update_config(api) == [api EXCEPT !.station_switch_entities = << >>]

\* turn_off_all_station_switches, api.py lines 136-145: the stations whose
\* switch entity is sent switch.turn_off
turn_off_all_stations(api) ==
    {i \in 1..Len(api.station_switch_entities) :
        strip(api.station_switch_entities[i]) # << >>}

\* the stations the config entry maps to a switch entity
Configured == {i \in 1..Len(env.entities) : strip(env.entities[i]) # << >>}

\* the API object of a config entry that maps switch entities; no output is on
InitRemap ==
    /\ env \in [entities : SeqsUpTo(SwitchEntities, MaxSwitches)]
    /\ cfg = Api(<< >>, TRUE, << >>, << >>, env.entities)
    /\ obs = [last |-> "init", updated |-> FALSE, station |-> 0, error |-> "none",
              on |-> {}, offs |-> {}]
    /\ now = StartDay * Day
    /\ coord = CalcCoordinator(now, 0, << >>, 1, 0, 0, 0)
    /\ callbacks = {}
    /\ storage = NoData
    /\ switches = [s \in Stations |-> FALSE]
    /\ off_now = {}
    /\ sessions = [k \in SessionSlots |-> IdleSession]
    /\ stops = [j \in StopSlots |-> IdleStop]
    /\ timers = {}
    /\ initPc = "run"

RemapUnchanged ==
    UNCHANGED <<now, coord, storage, switches, off_now, sessions, stops, timers,
                callbacks, initPc, env>>

\* update_config with a config entry that maps the same switch entities
RemapUpdateConfig ==
    /\ cfg' = api_after_update_config(cfg)
    /\ obs' = [obs EXCEPT !.last = "update_config", !.updated = TRUE]
    /\ RemapUnchanged

\* start_irrigation(s, ...): api.turn_on_station_switch(s)
RemapTurnOn(s) ==
    /\ LET r == turn_station_switch(cfg, [action |-> "turn_on_station_switch",
                                          station |-> s], FALSE)
       IN  obs' = [obs EXCEPT !.last = "turn_on", !.station = s, !.error = r.error,
                              !.on = IF r.error = "none" THEN @ \cup {s} ELSE @]
    /\ UNCHANGED cfg
    /\ RemapUnchanged

\* stop_irrigation: api.turn_off_all_station_switches()
RemapStopAll ==
    /\ obs' = [obs EXCEPT !.last = "stop_all", !.offs = turn_off_all_stations(cfg),
                          !.on = @ \ turn_off_all_stations(cfg)]
    /\ UNCHANGED cfg
    /\ RemapUnchanged

RemapNext ==
    \/ RemapUpdateConfig
    \/ \E s \in 1..MaxSwitches : RemapTurnOn(s)
    \/ RemapStopAll

RemapSpec == InitRemap /\ [][RemapNext]_vars

\* C37: also after update_config, a start for a station the config entry maps
\* turns its output on, and a stop-all leaves no output on that a session
\* turned on
MappingSurvivesUpdate ==
    /\ (obs.last = "turn_on" /\ obs.station \in Configured) => obs.error = "none"
    /\ obs.last = "stop_all" => obs.on = {}

\* ------------------------------------------------------------------------
\* A restart between two watering hours of one day
\* ------------------------------------------------------------------------
MorningHorizon == 365     \* minutes from 23:59:00 to 06:04 of the next day
MorningBudget == 1        \* actions of the environment per behaviour
\* station 1 runs at 06:00 and at 06:03
MorningSchedule(interval) ==
    [m \in 1..12 |-> [interval_days |-> interval,
                      stations |-> [s \in Stations |->
                                      IF s = 1 THEN ScheduledMinutes ELSE 0],
                      hours |-> << <<6, 0>>, <<6, 3>> >>]]

\* the coordinator as the reset of 00:00 left it, the last rain and watering
\* `ago` days back
MorningCoordinator(t, interval, ago) ==
    [Constructor(t) EXCEPT
        !.schedule = MorningSchedule(interval),
        !.last_reset = DateOf(t) * Day,
        !.last_rain = (DateOf(t) - ago) * Day + Day \div 2,
        !.last_sprinkle = (DateOf(t) - ago) * Day + Day \div 2]

\* 06:00 of a day on which the 00:01 trigger armed both hours
InitMorning ==
    /\ now = (StartDay + 1) * Day + HourTime(<<6, 0>>)
    /\ cfg = Config("service", 0, FALSE)
    /\ coord \in {[MorningCoordinator(now, interval, ago) EXCEPT
                      !.sprinkle_target_amount_today =
                          calculate_sprinkle_target_amounts(
                              MorningCoordinator(now, interval, ago), cfg, now)] :
                    interval \in {0, IntervalDays}, ago \in {IntervalDays, IntervalDays + 1}}
    /\ storage = Snapshot(coord)
    /\ callbacks = ArmCycles(coord, DateOf(now) * Day + Minute, 1)
                     \cup DailyTriggers(DateOf(now) * Day + Minute)
    /\ switches = [s \in Stations |-> FALSE]
    /\ off_now = {}
    /\ sessions = [k \in SessionSlots |-> IdleSession]
    /\ stops = [j \in StopSlots |-> IdleStop]
    /\ timers = {}
    /\ initPc = "run"
    /\ env = [starts |-> 0, stop_calls |-> 0, restarts |-> 0, polls |-> 0,
              budget |-> MorningBudget, horizon |-> MorningHorizon,
              soil |-> NoReading]
    /\ obs = [last |-> "init", obligations |-> {}, missed_stop |-> FALSE,
              restored |-> NoSession, armings |-> 1, resets |-> NoResets,
              stop_offs |-> {}]

MorningNext ==
    \/ Tick
    \/ \E d \in Downtimes : Restart(d)
    \/ InitLoad
    \/ InitRestore(TRUE)
    \/ InitSchedule
    \/ InitPoll(NoWeather)
    \/ \E cb \in callbacks, k \in SessionSlots : FireCycle(cb, k)
    \/ \E k \in SessionSlots : ActionDone(k)
    \/ \E k \in SessionSlots : PollStartDone(k, NoWeather)
    \/ \E k \in SessionSlots : Wake(k)
    \/ \E k \in SessionSlots : PollEndDone(k, NoWeather)

MorningSpec == InitMorning /\ [][MorningNext]_vars

\* C38: when the process starts on a day on which a watering already took
\* place, the arming of async_init arms every hour of today that is still
\* ahead, as long as a station still needs watering
RestartKeepsLaterHours ==
    [][(/\ initPc = "schedule" /\ initPc' = "poll"
        /\ DateOf(coord.last_sprinkle) = DateOf(now)
        /\ needs_watering_today(coord))
          => \A n \in 1..Len(coord.schedule[MonthIndex(DateOf(now)) + 1].hours) :
                LET at == DateOf(now) * Day
                            + HourTime(coord.schedule[MonthIndex(DateOf(now)) + 1].hours[n])
                IN  at > now => \E cb \in callbacks' : cb.kind = "cycle" /\ cb.at = at
    ]_vars

====
